---- MODULE Spec2Model ----
(***************************************************************************)
(* A model of the editing core of fate: Operation apply/undo against a    *)
(* Document (operation.py, document.py) and the construction of a         *)
(* TextView under concealment (fate/textview.py).                          *)
(*                                                                         *)
(* Texts are sequences of one-character strings; "\n" is the line break.   *)
(* An Interval is a pair <<beg, end>>, a Selection a sequence of them.     *)
(* Python positions are 0-based, TLA+ sequences 1-based: position p of a   *)
(* text t is t[p + 1].                                                     *)
(***************************************************************************)
EXTENDS Integers, Sequences, FiniteSets, TLC

\* Most documents open at once.
MaxDocs == 3
\* Longest document text explored.
MaxLen == 3
\* Most intervals in a selection handed to an Operation.
MaxIntervals == 2
\* The strings a new_content list is made of.
NewStrings == {<<>>, <<"x">>, <<"y">>}

VARIABLES
    text,        \* Document._text
    selection,   \* Document._selection
    selectmode,  \* Document.selectmode / session.selection_mode
    saved,       \* Document.saved
    notified,    \* what the OnTextChanged listeners saw during the last call
    raised,      \* the exception the last call ended with, or "none"
    op,          \* the Operation under construction / last executed
    phase,       \* "idle", "constructed", "applied", "apply_failed", "undone",
                 \* "undo_failed"
    base,        \* (text, selection) the Operation was applied to
    before,      \* (text, selection) just before the last apply or undo
    mode_before, \* the selectmode just before the last apply or undo
    global_substitutions,  \* doc.conceal.global_substitutions
    local_rules,           \* what the document's local concealers produce
    local_substitutions,   \* doc.conceal.local_substitutions
    highlighting,          \* doc.highlighting: original position -> annotation
    view,                  \* the last TextView built, or how building it ended
    seen,                  \* what each step of a TextView built step by step read
    locked_selection,      \* Document.locked_selection; <<>> stands for None
    released,              \* the locked selection the running release command found
    documentlist,          \* document.documentlist: the open documents, 1 is this one
    activedocument,        \* document.activedocument; 0 stands for None
    unsaved,               \* the other documents whose saved flag is False
    quit_calls,            \* how often the last quit command called quit() on each document
    quitting,              \* the quit command that ran, and what it started from
    around,                \* the last call of SelectAroundChar and what it returned
    localpattern,          \* the last call of SelectLocalPattern and what it returned
    running,               \* the compositions built, doc.mode and the calls made by the commands run
    insertion,             \* the ChangeInPlace mode: newcontent, oldselection, preview_operation
    completion,            \* the ExampleCompletable mode: newcontent, completions, selected_completion
    prompt                 \* the Prompt mode: inputstring, and the inputs it was given

docvars == <<text, selection, selectmode, saved, notified, raised>>
opvars == <<op, phase, base, before, mode_before>>
concealvars == <<global_substitutions, local_rules, local_substitutions>>
viewvars == <<concealvars, highlighting, view, seen>>
lockvars == <<locked_selection, released>>
listvars == <<documentlist, activedocument, unsaved, quit_calls, quitting>>
modevars == <<insertion, completion, prompt>>
selectorvars == <<around, localpattern>>
sessionvars == <<lockvars, listvars, selectorvars, running, modevars>>
vars == <<docvars, opvars, viewvars, sessionvars>>

Min(a, b) == IF a <= b THEN a ELSE b
Max(a, b) == IF a >= b THEN a ELSE b

\* Python's s[b:e] for 0 <= b and 0 <= e (out-of-range ends are clamped).
Slice(s, b, e) == SubSeq(s, b + 1, Min(e, Len(s)))

Intervals(L) == {iv \in (0..L) \X (0..L) : iv[1] <= iv[2]}

\* Sorted, mutually non-overlapping interval lists over a text of length L.
\* Consecutive intervals may touch: ChangeInPlace widens the intervals of its
\* oldselection in place on backspace and 'del'.
SelectionsOn(L) ==
    {s \in UNION {[1..k -> Intervals(L)] : k \in 1..MaxIntervals} :
        \A i \in 1..(Len(s) - 1) : s[i][2] <= s[i + 1][1] /\ s[i] # s[i + 1]}

\* The new_content lists offered for a selection of n intervals: as long as
\* the selection, or shorter.
NewContents(n) == UNION {[1..k -> NewStrings] : k \in 1..n}

(***************************************************************************)
(* Selection (fate/selection.py is not among the sources).                 *)
(***************************************************************************)

\* Selection.add(interval): merge the interval with every interval it
\* overlaps or touches, keeping the list sorted.
add(sel, iv) ==
    LET lower == SelectSeq(sel, LAMBDA x : x[2] < iv[1])
        upper == SelectSeq(sel, LAMBDA x : x[1] > iv[2])
        mid == SelectSeq(sel, LAMBDA x : ~(x[2] < iv[1]) /\ ~(x[1] > iv[2]))
        nbeg == IF Len(mid) = 0 THEN iv[1] ELSE Min(iv[1], mid[1][1])
        nend == IF Len(mid) = 0 THEN iv[2] ELSE Max(iv[2], mid[Len(mid)][2])
    IN lower \o <<<<nbeg, nend>>>> \o upper

\* Selection.content(doc): the substring of every interval, in order.
content(sel, t) == [i \in 1..Len(sel) |-> Slice(t, sel[i][1], sel[i][2])]

\* Selection.validate(doc) passes: non-empty, sorted, non-overlapping and
\* inside the text.
validate(sel, t) ==
    /\ Len(sel) > 0
    /\ \A i \in 1..Len(sel) : 0 <= sel[i][1] /\ sel[i][1] <= sel[i][2] /\ sel[i][2] <= Len(t)
    /\ \A i \in 1..(Len(sel) - 1) : sel[i][2] <= sel[i + 1][1]

\* partition over the intervals that are not empty only.
partition_without_cursors(sel, L) ==
    LET s == SelectSeq(sel, LAMBDA x : x[1] < x[2])
    IN [k \in 1..(2 * Len(s) + 1) |->
           IF k % 2 = 0
           THEN <<TRUE, s[k \div 2]>>
           ELSE <<FALSE,
                  <<IF k = 1 THEN 0 ELSE s[(k - 1) \div 2][2],
                    IF k = 2 * Len(s) + 1 THEN L ELSE s[(k + 1) \div 2][1]>>>>]

\* Selection.partition(doc): the spans <<in_selection, <<beg, end>>>> that
\* cover [0, L) in order, alternating between gaps and selected intervals.
partition(sel, L) ==
    [k \in 1..(2 * Len(sel) + 1) |->
        IF k % 2 = 0
        THEN <<TRUE, sel[k \div 2]>>
        ELSE <<FALSE,
               <<IF k = 1 THEN 0 ELSE sel[(k - 1) \div 2][2],
                 IF k = 2 * Len(sel) + 1 THEN L ELSE sel[(k + 1) \div 2][1]>>>>]

(***************************************************************************)
(* Operation (operation.py).                                               *)
(***************************************************************************)

NoOperation == [old_selection |-> <<>>, old_content |-> <<>>, new_content |-> <<>>]

\* Operation.__init__: selection defaults to the document's, new_content to
\* a copy of the old content (None and [] are both falsy; <<>> stands for both).
Operation(t, docsel, sel, nc) ==
    LET s == IF sel = <<>> THEN docsel ELSE sel
        oc == content(s, t)
    IN [old_selection |-> s,
        old_content |-> oc,
        new_content |-> IF nc = <<>> THEN oc ELSE nc]

\* new_selection indexes new_content[i] for every i < len(old_selection).
new_selection_raises(o) == Len(o.new_content) < Len(o.old_selection)

RECURSIVE new_selection_loop(_, _, _, _, _)
new_selection_loop(old, nc, i, end, result) ==
    IF i > Len(old) THEN result
    ELSE LET beg == end + old[i][1] - old[i - 1][2]
             nend == beg + Len(nc[i])
         IN new_selection_loop(old, nc, i + 1, nend, add(result, <<beg, nend>>))

\* Operation.new_selection (defined when it does not raise).
new_selection(o) ==
    LET beg == o.old_selection[1][1]
        end == beg + Len(o.new_content[1])
    IN new_selection_loop(o.old_selection, o.new_content, 2, end, <<<<beg, end>>>>)

\* rebuild with the count of consumed entries never advanced.
RECURSIVE rebuild_count_stuck(_, _, _, _, _)
rebuild_count_stuck(t, part, nc, k, count) ==
    IF k > Len(part) THEN <<>>
    ELSE IF part[k][1]
         THEN nc[1] \o rebuild_count_stuck(t, part, nc, k + 1, count)
         ELSE Slice(t, part[k][2][1], part[k][2][2])
                 \o rebuild_count_stuck(t, part, nc, k + 1, count)

\* The loop of _call that joins the partition's pieces: gaps are copied,
\* selected spans are replaced by new_content[count].
RECURSIVE rebuild(_, _, _, _, _)
rebuild(t, part, nc, k, count) ==
    IF k > Len(part) THEN <<>>
    ELSE IF part[k][1]
         THEN nc[count] \o rebuild(t, part, nc, k + 1, count + 1)
         ELSE Slice(t, part[k][2][1], part[k][2][2]) \o rebuild(t, part, nc, k + 1, count)

(***************************************************************************)
(* Document (document.py).  A document value is a record of the fields     *)
(* the setters touch; exc is the exception a setter ended with.            *)
(***************************************************************************)

\* The text setter without the saved flag.
text_setter_keeping_saved(doc, value) ==
    IF ~validate(doc.selection, value)
    THEN [doc EXCEPT !.text = value, !.exc = "validate"]
    ELSE [doc EXCEPT !.text = value,
                     !.notified = Append(doc.notified,
                                         [text |-> value, selection |-> doc.selection])]

\* Document.text setter: assign, validate the current selection against
\* the new text, mark unsaved, fire OnTextChanged.
text_setter(doc, value) ==
    IF ~validate(doc.selection, value)
    THEN [doc EXCEPT !.text = value, !.exc = "validate"]
    ELSE [doc EXCEPT !.text = value,
                     !.saved = FALSE,
                     !.notified = Append(doc.notified,
                                         [text |-> value, selection |-> doc.selection])]

\* Document.selection setter: validate, then assign.
selection_setter(doc, value) ==
    IF ~validate(value, doc.text)
    THEN [doc EXCEPT !.exc = "validate"]
    ELSE [doc EXCEPT !.selection = value]

\* _call without the reset of the selection mode.
call_keeping_selectmode(doc, o, inverse) ==
    IF new_selection_raises(o) THEN [doc EXCEPT !.exc = "IndexError"]
    ELSE
    LET old_sel == IF inverse THEN new_selection(o) ELSE o.old_selection
        new_sel == IF inverse THEN o.old_selection ELSE new_selection(o)
        nc == IF inverse THEN o.old_content ELSE o.new_content
        result == rebuild(doc.text, partition(old_sel, Len(doc.text)), nc, 1, 1)
        d1 == text_setter(doc, result)
    IN IF d1.exc # "none" THEN d1 ELSE selection_setter(d1, new_sel)

\* Operation._call(session, inverse).
call(doc, o, inverse) ==
    IF new_selection_raises(o) THEN [doc EXCEPT !.exc = "IndexError"]
    ELSE
    LET old_sel == IF inverse THEN new_selection(o) ELSE o.old_selection
        new_sel == IF inverse THEN o.old_selection ELSE new_selection(o)
        nc == IF inverse THEN o.old_content ELSE o.new_content
        result == rebuild(doc.text, partition(old_sel, Len(doc.text)), nc, 1, 1)
        d1 == text_setter(doc, result)
        d2 == [d1 EXCEPT !.selectmode = "SELECT"]
    IN IF d1.exc # "none" THEN d1 ELSE selection_setter(d2, new_sel)

\* Selection.bound(lo, hi): every interval clipped into [lo, hi].
RECURSIVE bound_loop(_, _, _, _, _)
bound_loop(sel, lo, hi, i, acc) ==
    IF i > Len(sel) THEN acc
    ELSE bound_loop(sel, lo, hi, i + 1,
                    add(acc, <<Min(Max(sel[i][1], lo), hi), Min(Max(sel[i][2], lo), hi)>>))

bound(sel, lo, hi) == bound_loop(sel, lo, hi, 1, <<>>)

\* The Operation of load(document): everything replaced by newtext.  Then
\* load itself, once the file has been read: select everything, apply the
\* Operation, put the former selection back clipped to the new text, mark
\* the document saved.
load_operation(doc, newtext) ==
    Operation(doc.text, <<<<0, Len(doc.text)>>>>, <<>>, <<newtext>>)

load(doc, newtext) ==
    LET current_selection == doc.selection
        d1 == selection_setter(doc, <<<<0, Len(doc.text)>>>>)
        d2 == call(d1, load_operation(d1, newtext), FALSE)
        d3 == selection_setter(d2, bound(current_selection, 0, Len(d2.text)))
    IN IF d1.exc # "none" THEN d1
       ELSE IF d2.exc # "none" THEN d2
       ELSE IF d3.exc # "none" THEN d3
       ELSE [d3 EXCEPT !.saved = TRUE]

\* The document as a value, at the start of a call.
Doc == [text |-> text, selection |-> selection, selectmode |-> selectmode,
        saved |-> saved, notified |-> <<>>, exc |-> "none"]

Store(d) ==
    /\ text' = d.text
    /\ selection' = d.selection
    /\ selectmode' = d.selectmode
    /\ saved' = d.saved
    /\ notified' = d.notified
    /\ raised' = d.exc

Snapshot == [text |-> text, selection |-> selection]

\* The class attributes of Document that no constructor argument sets.
NoCommand == [name |-> "none", started |-> <<>>, answers |-> <<>>]

\* SelectAroundChar has not been called.
NotCalled == [called |-> FALSE, char |-> "", none |-> TRUE, result |-> <<>>, exc |-> "none"]

\* The input loop has run no command: no composition has been built, the
\* document is in normal mode and nothing has been called on the undo tree.
NotRunning ==
    [trace |-> <<>>, compounds |-> <<>>,
     mode |-> [name |-> "normal", callback |-> 0, started |-> 0],
     exc |-> "none", inputs |-> 0]

InitSession ==
    /\ locked_selection = <<>>
    /\ released = <<>>
    /\ documentlist = <<1>>
    /\ activedocument = 1
    /\ unsaved = {}
    /\ quit_calls = [d \in 1..MaxDocs |-> 0]
    /\ quitting = NoCommand
    /\ around = NotCalled
    /\ localpattern = [called |-> FALSE, mode |-> "SELECT", reverse |-> FALSE,
                       only_within |-> FALSE, allow_same_interval |-> FALSE,
                       empty_is_none |-> FALSE, result |-> <<>>]
    /\ running = NotRunning
    /\ insertion = [stage |-> "none", newcontent |-> <<>>, oldselection |-> <<>>,
                    preview_operation |-> NoOperation, start |-> Snapshot,
                    before_stop |-> Snapshot, added |-> 0, keys |-> 0]
    /\ completion = [stage |-> "none", completer |-> FALSE, newcontent |-> <<>>,
                     oldselection |-> <<>>, preview_operation |-> NoOperation,
                     completions |-> <<>>, selected_completion |-> 0,
                     completion_start_pos |-> -1, keys |-> 0,
                     last |-> "none", selected_before |-> 0]
    /\ prompt = [stage |-> "none", inputstring |-> <<>>, cancelkey |-> "Esc",
                 inputs |-> <<>>, starts |-> 0]
    /\ mode_before = "SELECT"

\* No TextView has been built.
NoView == [method |-> "none", width |-> 0, height |-> 0, offset |-> 0, status |-> "none",
           step |-> "none",
           text |-> <<>>, origpos_to_viewpos |-> <<>>, viewpos_to_origpos |-> <<>>,
           selection |-> <<>>, highlighting |-> <<>>,
           sampled |-> [diverged |-> FALSE, obeg |-> 0, o_sample_length |-> 0,
                        substitutions |-> <<>>, vtext |-> <<>>, opos_to_vpos |-> <<>>,
                        vpos_to_opos |-> <<>>, local |-> <<>>]]

\* Document.__init__ without a file name: empty text, Selection(Interval(0, 0)).
Init ==
    /\ text = <<>>
    /\ selection = <<<<0, 0>>>>
    /\ selectmode = "SELECT"
    /\ saved = TRUE
    /\ notified = <<>>
    /\ raised = "none"
    /\ op = NoOperation
    /\ phase = "idle"
    /\ base = [text |-> <<>>, selection |-> <<<<0, 0>>>>]
    /\ before = [text |-> <<>>, selection |-> <<<<0, 0>>>>]
    /\ global_substitutions = <<>>
    /\ local_rules = <<>>
    /\ local_substitutions = <<>>
    /\ highlighting = <<>>
    /\ view = NoView
    /\ seen = <<>>
    /\ InitSession

\* A selector command assigns its result: doc.selection = value.
Select ==
    /\ phase = "idle"
    /\ \E value \in SelectionsOn(Len(text)) :
          /\ value # selection
          /\ Store(selection_setter(Doc, value))
    /\ base' = [text |-> text', selection |-> selection']
    /\ before' = base'
    /\ mode_before' = selectmode
    /\ UNCHANGED <<op, phase, viewvars>>
    /\ UNCHANGED sessionvars

\* A command builds an Operation on the current document and selection.
Construct ==
    /\ phase = "idle"
    /\ \E nc \in {<<>>} \cup NewContents(Len(selection)) :
          LET o == Operation(text, selection, <<>>, nc)
          IN /\ IF new_selection_raises(o) THEN TRUE
                ELSE Len(rebuild(text, partition(o.old_selection, Len(text)),
                                 o.new_content, 1, 1)) <= MaxLen
             /\ op' = o
    /\ phase' = "constructed"
    /\ UNCHANGED <<docvars, base, before, mode_before, viewvars>>
    /\ UNCHANGED sessionvars

\* operation.do(doc): Operation._call(doc).
Apply ==
    /\ phase = "constructed"
    /\ LET d == call(Doc, op, FALSE)
       IN /\ Store(d)
          /\ phase' = IF d.exc = "none" THEN "applied" ELSE "apply_failed"
    /\ base' = Snapshot
    /\ before' = Snapshot
    /\ mode_before' = selectmode
    /\ UNCHANGED <<op, viewvars>>
    /\ UNCHANGED sessionvars

\* operation.undo(doc): Operation._undo(doc).
Undo ==
    /\ phase \in {"applied", "mode_changed"}
    /\ LET d == call(Doc, op, TRUE)
       IN /\ Store(d)
          /\ phase' = IF d.exc = "none" THEN "undone" ELSE "undo_failed"
    /\ before' = Snapshot
    /\ mode_before' = selectmode
    /\ UNCHANGED <<op, base, viewvars>>
    /\ UNCHANGED sessionvars

\* The texts of the files loaded.
FileTexts == {t \in {<<>>, <<"x">>, <<"y", "x">>, <<"x", "y", "x">>} : Len(t) <= MaxLen}

\* commands.load: the file cannot be read (an error is logged and nothing
\* changes), or its text replaces the document's.
Load ==
    /\ phase = "idle"
    /\ \/ UNCHANGED <<docvars, op, phase, base, before, mode_before>>
       \/ \E newtext \in FileTexts :
             LET d == load(Doc, newtext)
             IN /\ Store(d)
                /\ op' = load_operation(Doc, newtext)
                /\ phase' = IF d.exc = "none" THEN "loaded" ELSE "load_failed"
                /\ base' = Snapshot
                /\ before' = Snapshot
                /\ mode_before' = selectmode
    /\ UNCHANGED viewvars
    /\ UNCHANGED sessionvars

\* The command that ran the Operation or the load returns to the input
\* loop; the observations of its calls are dropped.
Return ==
    /\ phase \in {"applied", "undone", "loaded", "released", "unlocked"}
    /\ phase' = "idle"
    /\ op' = NoOperation
    /\ notified' = <<>>
    /\ raised' = "none"
    /\ base' = Snapshot
    /\ before' = Snapshot
    /\ mode_before' = selectmode
    /\ UNCHANGED <<text, selection, selectmode, saved, viewvars>>
    /\ released' = <<>>
    /\ UNCHANGED <<locked_selection, listvars, selectorvars, running, modevars>>

Next == Select \/ Construct \/ Apply \/ Undo \/ Load \/ Return

\* The user enters or leaves the extend or reduce mode of the selectors;
\* after an apply the phase "mode_changed" says that the Operation applied
\* last can still be undone.
SetSelectMode ==
    /\ phase \in {"idle", "constructed", "applied"}
    /\ \E mode \in {"SELECT", "EXTEND", "REDUCE"} :
          /\ mode # selectmode
          /\ selectmode' = mode
    /\ phase' = IF phase = "applied" THEN "mode_changed" ELSE phase
    /\ UNCHANGED <<text, selection, saved, notified, raised, op, base, before, mode_before,
                   viewvars, sessionvars>>

\* Operations are applied and undone in every selection mode.
NextModes == Select \/ SetSelectMode \/ Construct \/ Apply \/ Undo \/ Return

Spec == Init /\ [][Next]_vars

SpecModes == Init /\ [][NextModes]_vars

(***************************************************************************)
(* Wrapped lines (fate/navigation.py is not among the sources).  A wrapped *)
(* line is a chunk of at most width characters of one line; the line       *)
(* breaks that follow a chunk, and those at the very start of the text,    *)
(* belong to it.                                                           *)
(***************************************************************************)

RECURSIVE SortedSeq(_)
SortedSeq(S) ==
    IF S = {} THEN <<>>
    ELSE LET m == CHOOSE x \in S : \A y \in S : x <= y
         IN <<m>> \o SortedSeq(S \ {m})

\* The position where the line holding position p starts.
LineStart(t, p) ==
    LET breaks == {q \in 0..(p - 1) : t[q + 1] = "\n"}
    IN IF breaks = {} THEN 0 ELSE (CHOOSE q \in breaks : \A r \in breaks : r <= q) + 1

\* The positions where a wrapped line of width w starts to show characters.
ChunkStarts(t, w) ==
    {p \in 0..(Len(t) - 1) : t[p + 1] # "\n" /\ (p - LineStart(t, p)) % w = 0}

\* The first position of every wrapped line, in order.
WrappedLineStarts(t, w) ==
    LET starts == SortedSeq(ChunkStarts(t, w))
    IN IF Len(t) = 0 THEN <<>>
       ELSE IF Len(starts) = 0 THEN <<0>>
       ELSE [k \in 1..Len(starts) |-> IF k = 1 THEN 0 ELSE starts[k]]

\* The index of the wrapped line that holds position pos.
WrappedLineOf(t, w, pos) ==
    LET starts == WrappedLineStarts(t, w)
    IN Cardinality({k \in 1..Len(starts) : starts[k] <= pos})

\* count_wrapped_lines(text, width).
count_wrapped_lines(t, w) == Cardinality(ChunkStarts(t, w))

\* move_n_wrapped_lines_down(text, width, start, n): the first position of
\* the wrapped line n lines below the one holding start (the last line when
\* there are fewer).
move_n_wrapped_lines_down(t, w, start, n) ==
    LET starts == WrappedLineStarts(t, w)
    IN IF Len(starts) = 0 THEN start
       ELSE starts[Min(Max(WrappedLineOf(t, w, start), 1) + n, Len(starts))]

\* end_of_wrapped_line(text, width, pos): the last position of the wrapped
\* line holding pos.
end_of_wrapped_line(t, w, pos) ==
    LET starts == WrappedLineStarts(t, w)
        k == WrappedLineOf(t, w, pos)
    IN IF k < Len(starts) THEN starts[k + 1] - 1 ELSE Len(t) - 1

(***************************************************************************)
(* TextView (fate/textview.py).                                            *)
(***************************************************************************)

\* Characters of the texts a view is built of, and the replacements shown
\* for concealed spans.
ViewChars == {"a", "\n"}
Replacements == {<<>>, <<"b", "b">>}

\* Most substitutions in a document's concealment.
MaxSubst == 2
\* Largest width and height asked for.
MaxSide == 2

ViewTexts == UNION {[1..k -> ViewChars] : k \in 0..MaxLen}

\* Sorted, non-overlapping lists of (Interval, replacement) over a text of
\* length L.
SubstitutionsOn(L) ==
    {s \in UNION {[1..k -> Intervals(L) \X Replacements] : k \in 0..MaxSubst} :
        \A i \in 1..(Len(s) - 1) :
            s[i][1][2] <= s[i + 1][1][1] /\ s[i][1] # s[i + 1][1]}

\* range(a, b) and n * [x].
Range(a, b) == [k \in 1..(b - a) |-> a + k - 1]

\* A span mapped position by position, as if it were shown verbatim.
Repeat_counting(x, n) == [k \in 1..n |-> x + k - 1]

Repeat(x, n) == [k \in 1..n |-> x]

\* list[i] of Python: a negative index counts from the end.
IndexOk(l, i) == -Len(l) <= i /\ i < Len(l)
Index(l, i) == IF i >= 0 THEN l[i + 1] ELSE l[Len(l) + i + 1]

\* conceal.generate_local_substitutions(obeg, length): the local concealers'
\* substitutions inside [obeg, obeg + length).
generate_local_substitutions(rules, obeg, n) ==
    SelectSeq(rules, LAMBDA x : obeg <= x[1][1] /\ x[1][2] <= obeg + n)

\* global_substitutions[first_global_subst:last_global_subst] for the two
\* bisect_left calls: the entries that begin in [obeg, obeg + length).
global_slice(globals, obeg, n) ==
    SelectSeq(globals, LAMBDA x : obeg <= x[1][1] /\ x[1][1] < obeg + n)

\* (local + global slice).sort() for two sorted lists.
RECURSIVE sorted_substitutions(_, _)
sorted_substitutions(a, b) ==
    IF Len(a) = 0 THEN b
    ELSE IF Len(b) = 0 THEN a
    ELSE IF a[1][1][1] < b[1][1][1] \/ (a[1][1][1] = b[1][1][1] /\ a[1][1][2] <= b[1][1][2])
         THEN <<a[1]>> \o sorted_substitutions(Tail(a), b)
         ELSE <<b[1]>> \o sorted_substitutions(a, Tail(b))

\* The while loop of _compute_text_from_orig_interval.  st holds subst_index
\* (counted from 1), opos, vpos, vtext and the two maps.  The loop does not
\* end once the non-concealed branch computes olength <= 0: nothing it
\* tests changes any more.
RECURSIVE walk(_, _, _, _, _)
walk(otext, obeg, n, subs, st) ==
    IF ~(st.opos < obeg + n) THEN st
    ELSE IF st.subst_index > Len(subs)
    THEN LET olength == Min(n - (st.opos - obeg), Len(otext) - (st.opos - obeg))
         IN [st EXCEPT !.vpos_to_opos = @ \o Range(st.opos, st.opos + olength),
                       !.opos_to_vpos = @ \o Range(st.vpos, st.vpos + olength),
                       !.vtext = @ \o Slice(otext, st.opos, st.opos + olength),
                       !.opos = @ + olength,
                       !.vpos = @ + olength]
    ELSE LET sbeg == subs[st.subst_index][1][1]
             send == subs[st.subst_index][1][2]
             replacement == subs[st.subst_index][2]
         IN IF sbeg > st.opos
            THEN LET olength == Min(sbeg - st.opos, n - st.vpos)
                 IN IF olength <= 0 THEN [st EXCEPT !.diverged = TRUE]
                    ELSE walk(otext, obeg, n, subs,
                              [st EXCEPT !.vpos_to_opos = @ \o Range(st.opos, st.opos + olength),
                                         !.opos_to_vpos = @ \o Range(st.vpos, st.vpos + olength),
                                         !.vtext = @ \o Slice(otext, st.opos, st.opos + olength),
                                         !.vpos = @ + olength,
                                         !.opos = @ + olength])
            ELSE LET vlength == Len(replacement)
                     olength == send - sbeg
                 IN walk(otext, obeg, n, subs,
                         [st EXCEPT !.vpos_to_opos = @ \o Repeat(st.opos, vlength),
                                    !.opos_to_vpos = @ \o Repeat(st.vpos, olength),
                                    !.vtext = @ \o replacement,
                                    !.vpos = @ + vlength,
                                    !.opos = @ + olength,
                                    !.subst_index = @ + 1])

\* TextView._compute_text_from_orig_interval(obeg, o_sample_length) on a
\* document d: the view text, the two maps with their sentinel, the sorted
\* substitutions it walked, the local substitutions it generated, and
\* whether its loop failed to end.
compute_text_from_orig_interval(d, obeg, n) ==
    LET local == generate_local_substitutions(d.local_rules, obeg, n)
        substitutions == sorted_substitutions(local, global_slice(d.global_substitutions, obeg, n))
        st == walk(d.text, obeg, n, substitutions,
                   [subst_index |-> 1, opos |-> obeg, vpos |-> 0, vtext |-> <<>>,
                    vpos_to_opos |-> <<>>, opos_to_vpos |-> <<>>, diverged |-> FALSE])
    IN [diverged |-> st.diverged,
        obeg |-> obeg,
        o_sample_length |-> n,
        substitutions |-> substitutions,
        vtext |-> st.vtext,
        opos_to_vpos |-> Append(st.opos_to_vpos, Len(st.vtext)),
        vpos_to_opos |-> Append(st.vpos_to_opos, n),
        local |-> local]

\* No sample of the original text has been taken.
NoSample == [diverged |-> FALSE, obeg |-> 0, o_sample_length |-> 0, substitutions |-> <<>>,
             vtext |-> <<>>, opos_to_vpos |-> <<>>, vpos_to_opos |-> <<>>, local |-> <<>>]

\* The sampling loop of _compute_text_from_view_interval: double the sample
\* until it shows height wrapped lines or reaches the end of the text.
RECURSIVE sample(_, _, _, _, _)
sample(d, obeg, width, height, n) ==
    LET r == compute_text_from_orig_interval(d, obeg, n)
    IN IF r.diverged THEN r
       ELSE IF count_wrapped_lines(r.vtext, width) < height /\ obeg + n < Len(d.text)
            THEN sample(d, obeg, width, height, 2 * n)
            ELSE r

\* What a TextView under construction holds: the outcome so far, the text
\* and the maps, the last sample taken and the document's local
\* substitutions.
Built(status, t, o2v, v2o, sampled, local) ==
    [status |-> status, text |-> t, origpos_to_viewpos |-> o2v,
     viewpos_to_origpos |-> v2o, sampled |-> sampled, local |-> local]

\* TextView._compute_text_from_view_interval.
compute_text_from_view_interval(d, width, height, offset) ==
    IF Len(d.text) - offset = 0
    THEN Built("ok", <<>>, <<0>>, <<0>>, NoSample, d.local_substitutions)
    ELSE IF Len(d.text) - offset < 0
    THEN Built("ValueError", <<>>, <<>>, <<>>, NoSample, d.local_substitutions)
    ELSE
    LET r == sample(d, offset, width, height, 1)
        vtext == r.vtext
        last_line == move_n_wrapped_lines_down(vtext, width, 0, height - 1)
        required_length == end_of_wrapped_line(vtext, width, last_line) + 1
        opos_to_vpos == Append(r.opos_to_vpos, Len(vtext))
        vpos_to_opos == Append(r.vpos_to_opos, r.o_sample_length)
        vtext_cut == Slice(vtext, 0, required_length)
        origpos_to_viewpos == Slice(opos_to_vpos, 0, required_length + 1)
    IN IF r.diverged THEN Built("diverged", <<>>, <<>>, <<>>, NoSample, r.local)
       ELSE IF ~(required_length > Len(vtext) \div 2)
            THEN Built("AssertionError", <<>>, <<>>, <<>>, r, r.local)
       ELSE IF ~(Len(vtext_cut) = required_length
                 /\ Len(origpos_to_viewpos) = required_length + 1)
            THEN Built("AssertionError", <<>>, <<>>, <<>>, r, r.local)
       ELSE Built("ok", vtext_cut, origpos_to_viewpos, vpos_to_opos, r, r.local)

\* The loop of _compute_selection over the document's intervals from the
\* i-th on; acc is the selection view built so far.
RECURSIVE selection_loop(_, _, _, _, _)
selection_loop(tv, sel, offset, i, acc) ==
    IF i > Len(sel) THEN [status |-> "ok", selection |-> acc]
    ELSE
    LET o_viewbeg == Index(tv.viewpos_to_origpos, 0)
        o_viewend == Index(tv.viewpos_to_origpos, Len(tv.text))
        beg0 == sel[i][1]
        end0 == sel[i][2]
        beg == Max(beg0, o_viewbeg)
        end == Min(o_viewend, end0)
    IN IF (beg0 < o_viewend /\ o_viewbeg < end0)
            \/ (beg0 = end0 /\ end0 = o_viewbeg)
            \/ (beg0 = end0 /\ end0 = o_viewend)
       THEN IF ~IndexOk(tv.origpos_to_viewpos, beg - offset)
                \/ ~IndexOk(tv.origpos_to_viewpos, end)
            THEN [status |-> "IndexError", selection |-> <<>>]
            ELSE LET vbeg == Index(tv.origpos_to_viewpos, beg - offset)
                     vend == Index(tv.origpos_to_viewpos, end) - offset
                 IN IF vbeg > vend THEN [status |-> "IntervalError", selection |-> <<>>]
                    ELSE selection_loop(tv, sel, offset, i + 1, add(acc, <<vbeg, vend>>))
       ELSE selection_loop(tv, sel, offset, i + 1, acc)

\* TextView._compute_selection with its postcondition
\* _compute_selectionview_post.
compute_selection(tv, sel, offset) ==
    IF ~IndexOk(tv.viewpos_to_origpos, Len(tv.text))
    THEN [status |-> "IndexError", selection |-> <<>>]
    ELSE LET r == selection_loop(tv, sel, offset, 1, <<>>)
         IN IF r.status # "ok" THEN r
            ELSE IF \A k \in 1..Len(r.selection) :
                       /\ 0 <= r.selection[k][1]
                       /\ r.selection[k][1] <= r.selection[k][2]
                       /\ r.selection[k][2] <= Len(tv.text)
                 THEN r
                 ELSE [status |-> "AssertionError", selection |-> <<>>]

\* The highlighting looked up at the view position itself.
compute_highlighting_unmapped(tv, hl) ==
    [q \in 1..Len(tv.text) |-> IF q - 1 \in DOMAIN hl THEN hl[q - 1] ELSE ""]

\* TextView._compute_highlighting.
compute_highlighting(tv, hl) ==
    [q \in 1..Len(tv.text) |->
        LET opos == tv.viewpos_to_origpos[q]
        IN IF opos \in DOMAIN hl THEN hl[opos] ELSE ""]

\* The outcome of a constructor: the TextView (or the exception raised in
\* place of it, and the step that raised it) and the document's local
\* substitutions afterwards.
TextView(method, width, height, offset, status, step, tm, sel, hl) ==
    [view |-> [method |-> method, width |-> width, height |-> height, offset |-> offset,
               status |-> status, step |-> step,
               text |-> tm.text,
               origpos_to_viewpos |-> tm.origpos_to_viewpos,
               viewpos_to_origpos |-> tm.viewpos_to_origpos,
               selection |-> sel,
               highlighting |-> hl,
               sampled |-> tm.sampled],
     local |-> tm.local]

\* The selection and highlighting steps shared by for_screen and
\* for_entire_text.
finish_view(method, tm, d, width, height, offset) ==
    IF tm.status # "ok"
    THEN TextView(method, width, height, offset, tm.status, "text", tm, <<>>, <<>>)
    ELSE LET s == compute_selection(tm, d.selection, offset)
         IN IF s.status # "ok"
            THEN TextView(method, width, height, offset, s.status, "selection", tm, <<>>, <<>>)
            ELSE TextView(method, width, height, offset, "ok", "done", tm, s.selection,
                          compute_highlighting(tm, d.highlighting))

\* for_screen with the local substitutions generated before its arguments
\* are looked at.
for_screen_reading_first(d, width, height, offset) ==
    IF width <= 0 \/ height <= 0 \/ offset < 0 \/ offset > Len(d.text)
    THEN TextView("for_screen", width, height, offset, "ValueError", "arguments",
                  Built("ValueError", <<>>, <<>>, <<>>, NoSample,
                        generate_local_substitutions(d.local_rules, 0, Len(d.text))),
                  <<>>, <<>>)
    ELSE finish_view("for_screen", compute_text_from_view_interval(d, width, height, offset),
                     d, width, height, offset)

\* TextView.for_screen(doc, width, height, offset).
for_screen(d, width, height, offset) ==
    IF width <= 0 \/ height <= 0 \/ offset < 0 \/ offset > Len(d.text)
    THEN TextView("for_screen", width, height, offset, "ValueError", "arguments",
                  Built("ValueError", <<>>, <<>>, <<>>, NoSample, d.local_substitutions),
                  <<>>, <<>>)
    ELSE finish_view("for_screen", compute_text_from_view_interval(d, width, height, offset),
                     d, width, height, offset)

\* TextView.for_entire_text(doc, width); its height stays None (0 here).
for_entire_text(d, width) ==
    IF width <= 0
    THEN TextView("for_entire_text", width, 0, 0, "ValueError", "arguments",
                  Built("ValueError", <<>>, <<>>, <<>>, NoSample, d.local_substitutions),
                  <<>>, <<>>)
    ELSE LET r == compute_text_from_orig_interval(d, 0, Len(d.text))
         IN finish_view("for_entire_text",
                        IF r.diverged
                        THEN Built("diverged", <<>>, <<>>, <<>>, NoSample, r.local)
                        ELSE Built("ok", r.vtext, r.opos_to_vpos, r.vpos_to_opos, r, r.local),
                        d, width, 0, 0)

\* TextView.text_as_lines(): every line of text.splitlines() cut into pieces
\* of width characters.
RECURSIVE splitlines(_, _, _)
splitlines(t, i, line) ==
    IF i > Len(t) THEN (IF Len(line) > 0 THEN <<line>> ELSE <<>>)
    ELSE IF t[i] = "\n" THEN <<line>> \o splitlines(t, i + 1, <<>>)
    ELSE splitlines(t, i + 1, Append(line, t[i]))

RECURSIVE wrap_lines(_, _)
wrap_lines(lines, width) ==
    IF Len(lines) = 0 THEN <<>>
    ELSE [i \in 1..((Len(lines[1]) + width - 1) \div width) |->
              Slice(lines[1], width * (i - 1), width * i)]
         \o wrap_lines(Tail(lines), width)

text_as_lines(tv) == wrap_lines(splitlines(tv.text, 1, <<>>), tv.width)

\* The document as the TextView reads it.
ViewDoc == [text |-> text, selection |-> selection, highlighting |-> highlighting,
            global_substitutions |-> global_substitutions,
            local_rules |-> local_rules,
            local_substitutions |-> local_substitutions]

\* A document with some text and concealment (its substitutions either
\* global or found by local concealers), the cursor at the start, no
\* highlighting and no view built yet.
InitView ==
    /\ text \in ViewTexts
    /\ selection = <<<<0, 0>>>>
    /\ selectmode = "SELECT"
    /\ saved = TRUE
    /\ notified = <<>>
    /\ raised = "none"
    /\ op = NoOperation
    /\ phase = "idle"
    /\ base = [text |-> text, selection |-> selection]
    /\ before = [text |-> text, selection |-> selection]
    /\ \E subs \in SubstitutionsOn(Len(text)) :
          \/ global_substitutions = subs /\ local_rules = <<>>
          \/ global_substitutions = <<>> /\ local_rules = subs
    /\ local_substitutions = <<>>
    /\ highlighting = <<>>
    /\ view = NoView
    /\ seen = <<>>
    /\ InitSession

\* The (width, height, offset) a screen is drawn with: every valid geometry
\* over a text of length L, and one with each argument for_screen rejects.
ScreenArgs(L) ==
    ((1..MaxSide) \X (1..MaxSide) \X (0..L))
        \cup {<<0, 1, 0>>, <<1, 0, 0>>, <<1, 1, -1>>, <<1, 1, L + 1>>}

\* The user interface draws the screen: TextView.for_screen.
ForScreen ==
    /\ view = NoView
    /\ \E args \in ScreenArgs(Len(text)) :
          LET r == for_screen(ViewDoc, args[1], args[2], args[3])
          IN view' = r.view /\ local_substitutions' = r.local
    /\ UNCHANGED <<docvars, opvars, global_substitutions, local_rules, highlighting, seen>>
    /\ UNCHANGED sessionvars

\* A view over the whole text: TextView.for_entire_text.
ForEntireText ==
    /\ view = NoView
    /\ \E width \in 0..MaxSide :
          LET r == for_entire_text(ViewDoc, width)
          IN view' = r.view /\ local_substitutions' = r.local
    /\ UNCHANGED <<docvars, opvars, global_substitutions, local_rules, highlighting, seen>>
    /\ UNCHANGED sessionvars

\* The user interface lets go of its view; it creates a new TextView when
\* it draws again.
DropView ==
    /\ view # NoView
    /\ view' = NoView
    /\ seen' = <<>>
    /\ UNCHANGED <<docvars, opvars, concealvars, highlighting>>
    /\ UNCHANGED sessionvars

NextView == ForScreen \/ ForEntireText \/ DropView

SpecView == InitView /\ [][NextView]_vars

\* No highlighting, and the highlighting that labels position p.
NoHighlighting == <<>>
Highlight(p) == p :> "keyword"

\* The selections of the documents viewed, over a text of length L: the
\* cursor at the start, the cursor at the end, the whole text, and the first
\* character together with the cursor at the end.
ViewSelections(L) ==
    {<<<<0, 0>>>>, <<<<L, L>>>>, <<<<0, L>>>>} \cup
    (IF L >= 2 THEN {<<<<0, 1>>, <<L, L>>>>} ELSE {})

\* Their highlighting: none, or a label on the last character.
ViewHighlightings(L) == {NoHighlighting, Highlight(Max(L - 1, 0))}

\* A document with some text, a selection, highlighting and at most one
\* global substitution, and no view built yet.
InitMarks ==
    /\ text \in ViewTexts
    /\ selection \in ViewSelections(Len(text))
    /\ selectmode = "SELECT"
    /\ saved = TRUE
    /\ notified = <<>>
    /\ raised = "none"
    /\ op = NoOperation
    /\ phase = "idle"
    /\ base = [text |-> text, selection |-> selection]
    /\ before = [text |-> text, selection |-> selection]
    /\ global_substitutions \in {s \in SubstitutionsOn(Len(text)) : Len(s) <= 1}
    /\ local_rules = <<>>
    /\ local_substitutions = <<>>
    /\ highlighting \in ViewHighlightings(Len(text))
    /\ view = NoView
    /\ seen = <<>>
    /\ InitSession

SpecMarks == InitMarks /\ [][NextView]_vars

(***************************************************************************)
(* for_screen run beside the thread that edits the document: its three     *)
(* assignments (textview.py:77-80) read self.doc one after the other, and  *)
(* an Operation may be applied between them.                               *)
(***************************************************************************)

\* What a step of the constructor can read of the document.
Seen == [text |-> text, selection |-> selection, highlighting |-> highlighting]

\* The document with the text, selection and highlighting read at one step.
DocSeen(s) == [text |-> s.text, selection |-> s.selection, highlighting |-> s.highlighting,
               global_substitutions |-> global_substitutions,
               local_rules |-> local_rules,
               local_substitutions |-> local_substitutions]

\* The TextView once text and maps are assigned; the status "building" says
\* that the selection and highlighting are still to be computed.
text_assigned(tm, width, height, offset) ==
    TextView("for_screen", width, height, offset,
             IF tm.status = "ok" THEN "building" ELSE tm.status, "text", tm, <<>>, <<>>)

\* for_screen up to and including the assignment of text and maps.
for_screen_text(d, width, height, offset) ==
    IF width <= 0 \/ height <= 0 \/ offset < 0 \/ offset > Len(d.text)
    THEN TextView("for_screen", width, height, offset, "ValueError", "arguments",
                  Built("ValueError", <<>>, <<>>, <<>>, NoSample, d.local_substitutions),
                  <<>>, <<>>)
    ELSE text_assigned(compute_text_from_view_interval(d, width, height, offset),
                       width, height, offset)

\* The selection view computed from the selection the document had when the
\* text was computed, as a constructor working on a snapshot would.
for_screen_selection_of_snapshot(tv, sel) ==
    LET s == compute_selection(tv, seen[1].selection, tv.offset)
    IN IF s.status # "ok"
       THEN [tv EXCEPT !.status = s.status, !.step = "selection"]
       ELSE [tv EXCEPT !.selection = s.selection, !.step = "selection"]

\* self.selection = self._compute_selection(), on the selection sel read
\* from self.doc at that moment.
for_screen_selection(tv, sel) ==
    LET s == compute_selection(tv, sel, tv.offset)
    IN IF s.status # "ok"
       THEN [tv EXCEPT !.status = s.status, !.step = "selection"]
       ELSE [tv EXCEPT !.selection = s.selection, !.step = "selection"]

\* self.highlighting = self._compute_highlighting(); return self.
for_screen_highlighting(tv, hl) ==
    [tv EXCEPT !.highlighting = compute_highlighting(tv, hl),
               !.step = "done", !.status = "ok"]

\* A document with some text, its whole text selected or the cursor at its
\* start, highlighting, and no view built yet.
InitThreads ==
    /\ text \in {t \in {<<"x">>, <<"x", "y">>, <<"y", "x", "y">>} : Len(t) <= MaxLen}
    /\ selection \in {<<<<0, 0>>>>, <<<<0, Len(text)>>>>}
    /\ selectmode = "SELECT"
    /\ saved = TRUE
    /\ notified = <<>>
    /\ raised = "none"
    /\ op = NoOperation
    /\ phase = "idle"
    /\ base = [text |-> text, selection |-> selection]
    /\ before = [text |-> text, selection |-> selection]
    /\ global_substitutions = <<>>
    /\ local_rules = <<>>
    /\ local_substitutions = <<>>
    /\ highlighting \in ViewHighlightings(Len(text))
    /\ view = NoView
    /\ seen = <<>>
    /\ InitSession

\* textview.py:64-78: the arguments are checked, then text and maps are
\* computed from the document as it is now.
ComputeText ==
    /\ view = NoView
    /\ \E args \in ScreenArgs(Len(text)) :
          LET r == for_screen_text(ViewDoc, args[1], args[2], args[3])
          IN view' = r.view /\ local_substitutions' = r.local
    /\ seen' = <<Seen>>
    /\ UNCHANGED <<docvars, opvars, global_substitutions, local_rules, highlighting>>
    /\ UNCHANGED sessionvars

\* textview.py:79: the selection view is computed from the document as it
\* is now, through the maps computed before.
ComputeSelection ==
    /\ view.status = "building"
    /\ view.step = "text"
    /\ view' = for_screen_selection(view, selection)
    /\ seen' = Append(seen, Seen)
    /\ UNCHANGED <<docvars, opvars, concealvars, highlighting>>
    /\ UNCHANGED sessionvars

\* textview.py:80-82: the highlighting view is computed from the document
\* as it is now, and the TextView is returned.
ComputeHighlighting ==
    /\ view.status = "building"
    /\ view.step = "selection"
    /\ view' = for_screen_highlighting(view, highlighting)
    /\ seen' = Append(seen, Seen)
    /\ UNCHANGED <<docvars, opvars, concealvars, highlighting>>
    /\ UNCHANGED sessionvars

\* The thread of the user interface builds views while the thread of the
\* commands constructs and applies Operations.
NextThreads ==
    \/ ComputeText \/ ComputeSelection \/ ComputeHighlighting \/ DropView
    \/ Construct \/ Apply \/ Return

SpecThreads == InitThreads /\ [][NextThreads]_vars

(***************************************************************************)
(* The locked selection (selectors.py).                                    *)
(***************************************************************************)

\* Selection.__add__: every interval of other added to sel.
RECURSIVE union(_, _)
union(sel, other) ==
    IF Len(other) = 0 THEN sel ELSE union(add(sel, other[1]), Tail(other))

\* lock_selection: the locked selection afterwards (None counts as the
\* empty Selection() it is replaced by).
lock_selection(locked, sel) == union(locked, sel)

\* release with the locked selection assigned as it is.
release_locked_selection_unbounded(doc, locked) ==
    IF locked = <<>> THEN doc ELSE selection_setter(doc, locked)

\* release_locked_selection(document), up to the assignment of the selection.
release_locked_selection(doc, locked) ==
    IF locked = <<>> THEN doc
    ELSE LET newselection == bound(locked, 0, Len(doc.text))
         IN IF Len(newselection) > 0 THEN selection_setter(doc, newselection) ELSE doc

\* commands.lock.
Lock ==
    /\ phase = "idle"
    /\ locked_selection' = lock_selection(locked_selection, selection)
    /\ UNCHANGED <<docvars, opvars, viewvars, released, listvars, selectorvars, running, modevars>>

\* commands.release; the locked selection is dropped when the assignment
\* did not raise.
Release ==
    /\ phase = "idle"
    /\ LET d == release_locked_selection(Doc, locked_selection)
       IN /\ Store(d)
          /\ phase' = IF d.exc = "none" THEN "released" ELSE "release_failed"
          /\ locked_selection' = IF d.exc = "none" THEN <<>> ELSE locked_selection
    /\ released' = locked_selection
    /\ UNCHANGED <<op, base, before, mode_before, viewvars, listvars, selectorvars, running, modevars>>

\* Selection.__sub__: the ranges of other removed from the intervals of
\* sel; an interval may be split, and one that is covered disappears.
RECURSIVE subtract(_, _)
subtract(sel, other) ==
    IF Len(other) = 0 THEN sel
    ELSE LET c == other[1][1]
             d == other[1][2]
             pieces(iv) ==
                 (IF iv[1] < c THEN <<<<iv[1], Min(iv[2], c)>>>> ELSE <<>>)
                    \o (IF d < iv[2] THEN <<<<Max(iv[1], d), iv[2]>>>> ELSE <<>>)
             RECURSIVE all(_)
             all(s) == IF Len(s) = 0 THEN <<>> ELSE pieces(s[1]) \o all(Tail(s))
         IN subtract(all(sel), Tail(other))

\* unlock that assigns the difference also when it is empty.
Unlock_emptying ==
    /\ phase = "idle"
    /\ locked_selection' = subtract(locked_selection, selection)
    /\ phase' = "unlocked"
    /\ UNCHANGED <<docvars, op, base, before, mode_before, viewvars, released,
                   listvars, selectorvars, running, modevars>>

\* commands.unlock: the selection is removed from the locked selection
\* unless nothing would be left.
Unlock ==
    /\ phase = "idle"
    /\ locked_selection' =
          IF locked_selection # <<>> /\ subtract(locked_selection, selection) # <<>>
          THEN subtract(locked_selection, selection)
          ELSE locked_selection
    /\ phase' = "unlocked"
    /\ UNCHANGED <<docvars, op, base, before, mode_before, viewvars, released,
                   listvars, selectorvars, running, modevars>>

\* Selections are made, locked, unlocked and released while Operations and
\* loads change the length of the text.
NextLock == Select \/ Lock \/ Unlock \/ Release \/ Construct \/ Apply \/ Load \/ Return

SpecLock == Init /\ [][NextLock]_vars

(***************************************************************************)
(* The list of documents and the quit commands (document.py).              *)
(***************************************************************************)

\* The part of the session a quit command works on, as the command starts.
Session == [documentlist |-> documentlist, activedocument |-> activedocument,
            quit_calls |-> [d \in 1..MaxDocs |-> 0]]

\* list.index(x) + 1 and list.remove(x), for a list that holds x once.
IndexOf(list, x) == CHOOSE i \in 1..Len(list) : list[i] = x
Remove(list, x) == SelectSeq(list, LAMBDA y : y # x)

\* Document.quit(): the last document stays in the list; otherwise a
\* neighbour is activated and the document is removed.
quit(st, d) ==
    LET index == IndexOf(st.documentlist, d)
        called == [st EXCEPT !.quit_calls[d] = @ + 1]
    IN IF Len(st.documentlist) = 1
       THEN [called EXCEPT !.activedocument = 0]
       ELSE [called EXCEPT
                !.activedocument = IF index < Len(st.documentlist)
                                   THEN st.documentlist[index + 1]
                                   ELSE st.documentlist[index - 1],
                !.documentlist = Remove(st.documentlist, d)]

\* d in documentlist.
Listed(d) == \E i \in 1..Len(documentlist) : documentlist[i] = d

\* Document.saved of document d.
Saved(d) == IF d = 1 THEN saved ELSE d \notin unsaved

\* quit_document(document): an unsaved document is quit when the prompt is
\* answered 'y' and kept when it is answered 'n'.
quit_document(st, d, answer) ==
    IF ~Saved(d) /\ answer = "n" THEN st ELSE quit(st, d)

\* for document in documentlist: ... over the list as the body changes it:
\* the loop takes documentlist[i] while i < len(documentlist).
RECURSIVE quit_all_loop(_, _, _)
quit_all_loop(st, i, answers) ==
    IF i >= Len(st.documentlist) THEN st
    ELSE LET d == st.documentlist[i + 1]
         IN quit_all_loop(quit_document(st, d, answers[d]), i + 1, answers)

RECURSIVE force_quit_loop(_, _)
force_quit_loop(st, i) ==
    IF i >= Len(st.documentlist) THEN st
    ELSE force_quit_loop(quit(st, st.documentlist[i + 1]), i + 1)

quit_all(st, answers) == quit_all_loop(st, 0, answers)
force_quit(st) == force_quit_loop(st, 0)

StoreSession(st) ==
    /\ documentlist' = st.documentlist
    /\ activedocument' = st.activedocument
    /\ quit_calls' = st.quit_calls

\* open_document: Document(filename) appends itself to documentlist; a new
\* document is saved.
OpenDocument ==
    /\ quitting = NoCommand
    /\ \E d \in 2..MaxDocs :
          /\ \A i \in 1..Len(documentlist) : documentlist[i] # d
          /\ \A e \in 2..(d - 1) : \E i \in 1..Len(documentlist) : documentlist[i] = e
          /\ documentlist' = Append(documentlist, d)
          /\ unsaved' = unsaved \ {d}
    /\ UNCHANGED <<docvars, opvars, viewvars, lockvars,
                   activedocument, quit_calls, quitting, selectorvars, running, modevars>>

\* commands.quit_document on the active document.
QuitDocument ==
    /\ quitting = NoCommand
    /\ activedocument # 0
    /\ \E answer \in {"y", "n"} :
          /\ Saved(activedocument) => answer = "y"
          /\ StoreSession(quit_document(Session, activedocument, answer))
    /\ UNCHANGED <<docvars, opvars, viewvars, lockvars, unsaved, quitting, selectorvars, running, modevars>>

\* next_document, previous_document, goto_document: a document of the list
\* is activated.
Activate ==
    /\ quitting = NoCommand
    /\ \E i \in 1..Len(documentlist) :
          /\ documentlist[i] # activedocument
          /\ activedocument' = documentlist[i]
    /\ UNCHANGED <<docvars, opvars, viewvars, lockvars,
                   documentlist, unsaved, quit_calls, quitting, selectorvars, running, modevars>>

\* The text of a document changes, or it is saved: Document.saved.
SetSaved ==
    /\ quitting = NoCommand
    /\ \E d \in 1..MaxDocs, value \in BOOLEAN :
          /\ Listed(d)
          /\ Saved(d) # value
          /\ IF d = 1
             THEN saved' = value /\ UNCHANGED unsaved
             ELSE /\ unsaved' = IF value THEN unsaved \ {d} ELSE unsaved \cup {d}
                  /\ UNCHANGED saved
    /\ UNCHANGED <<text, selection, selectmode, notified, raised, opvars, viewvars,
                   lockvars, documentlist, activedocument, quit_calls, quitting, selectorvars, running, modevars>>

\* commands.force_quit.
ForceQuit ==
    /\ quitting = NoCommand
    /\ StoreSession(force_quit(Session))
    /\ quitting' = [name |-> "force_quit", started |-> documentlist, answers |-> <<>>]
    /\ UNCHANGED <<docvars, opvars, viewvars, lockvars, unsaved, selectorvars, running, modevars>>

\* quit_all, with the answers the user gives to the prompts.
QuitAll ==
    /\ quitting = NoCommand
    /\ \E answers \in [1..MaxDocs -> {"y", "n"}] :
          /\ \A d \in 1..MaxDocs : (~Listed(d) \/ Saved(d)) => answers[d] = "y"
          /\ StoreSession(quit_all(Session, answers))
          /\ quitting' = [name |-> "quit_all", started |-> documentlist, answers |-> answers]
    /\ UNCHANGED <<docvars, opvars, viewvars, lockvars, unsaved, selectorvars, running, modevars>>

\* next_document(document) and previous_document(document) on the active
\* document: the neighbour in documentlist, cyclically, is activated.
SwitchDocument ==
    /\ quitting = NoCommand
    /\ activedocument # 0
    /\ \E step \in {1, -1} :
          LET index == IndexOf(documentlist, activedocument) - 1
          IN activedocument' = documentlist[((index + step) % Len(documentlist)) + 1]
    /\ UNCHANGED <<docvars, opvars, viewvars, lockvars,
                   documentlist, unsaved, quit_calls, quitting, selectorvars, running, modevars>>

NextQuit ==
    \/ OpenDocument \/ Activate \/ SwitchDocument \/ SetSaved
    \/ QuitDocument \/ ForceQuit \/ QuitAll

SpecQuit == Init /\ [][NextQuit]_vars

(***************************************************************************)
(* SelectAroundChar (selectors.py).                                        *)
(***************************************************************************)

\* The characters of the texts searched and the characters searched for.
AroundChars == {"(", ")", "a"}
AroundTexts == UNION {[1..k -> AroundChars] : k \in 0..MaxLen}

\* None, where an Interval is expected.
NoInterval == <<-1, -1>>

\* The two loops of find_matching_pair: the position found, or -1 for None.
RECURSIVE pair_beg(_, _, _, _, _, _)
pair_beg(string, i, level, beg, fst, snd) ==
    IF i < 0 THEN beg
    ELSE LET opened == string[i + 1] = fst
             level1 == IF opened /\ level > 0 THEN level - 1 ELSE level
             beg1 == IF opened /\ level = 0 THEN i ELSE beg
             level2 == IF string[i + 1] = snd THEN level1 + 1 ELSE level1
         IN pair_beg(string, i - 1, level2, beg1, fst, snd)

RECURSIVE pair_end(_, _, _, _, _, _)
pair_end(string, i, level, end, fst, snd) ==
    IF i >= Len(string) THEN end
    ELSE LET closed == string[i + 1] = snd
             level1 == IF closed /\ level > 0 THEN level - 1 ELSE level
             end1 == IF closed /\ level = 0 THEN i + 1 ELSE end
             level2 == IF string[i + 1] = fst THEN level1 + 1 ELSE level1
         IN pair_end(string, i + 1, level2, end1, fst, snd)

\* An AssertionError, where an Interval is expected.
AssertionFailed == <<-2, -2>>

\* find_matching_pair(string, pos, fst, snd); it asserts 0 <= pos < len(string).
find_matching_pair(string, pos, fst, snd) ==
    IF ~(0 <= pos /\ pos < Len(string)) THEN AssertionFailed
    ELSE LET beg == pair_beg(string, pos, 0, -1, fst, snd)
             end == pair_end(string, pos, 0, -1, fst, snd)
         IN IF beg # -1 /\ end # -1 THEN <<beg, end>> ELSE NoInterval

\* select_around_interval without its two edge cases: an empty interval at
\* the start or at the end of the string is searched like any other.
RECURSIVE select_around_interval_searching_edges(_, _, _, _, _)
select_around_interval_searching_edges(string, beg, end, fst, snd) ==
    IF ~(0 <= beg /\ beg <= end /\ end <= Len(string)) THEN AssertionFailed
    ELSE LET match1 == find_matching_pair(string, beg, fst, snd)
             match2 == find_matching_pair(string, Max(0, end - 1), fst, snd)
             n == IF match2[2] - match2[1] > match1[2] - match1[1] THEN match2 ELSE match1
         IN IF match1 = AssertionFailed \/ match2 = AssertionFailed THEN AssertionFailed
            ELSE IF match1 = NoInterval \/ match2 = NoInterval THEN NoInterval
            ELSE IF <<beg, end>> = n /\ beg > 0
                 THEN select_around_interval_searching_edges(string, beg - 1, end, fst, snd)
            ELSE IF <<beg, end>> = n /\ end < Len(string)
                 THEN select_around_interval_searching_edges(string, beg, end + 1, fst, snd)
            ELSE IF beg > n[1] + 1 \/ end < n[2] - 1
                 THEN <<n[1] + 1, n[2] - 1>>
                 ELSE n

\* select_around_interval(string, beg, end, fst, snd); it asserts
\* 0 <= beg <= end <= len(string), and an assertion that fails in
\* find_matching_pair fails the call.
RECURSIVE select_around_interval(_, _, _, _, _)
select_around_interval(string, beg, end, fst, snd) ==
    IF ~(0 <= beg /\ beg <= end /\ end <= Len(string)) THEN AssertionFailed
    ELSE IF (beg = end /\ end = Len(string)) \/ (beg = end /\ end = 0) THEN NoInterval
    ELSE LET match1 == find_matching_pair(string, beg, fst, snd)
             match2 == find_matching_pair(string, Max(0, end - 1), fst, snd)
             n == IF match2[2] - match2[1] > match1[2] - match1[1] THEN match2 ELSE match1
         IN IF match1 = AssertionFailed \/ match2 = AssertionFailed THEN AssertionFailed
            ELSE IF match1 = NoInterval \/ match2 = NoInterval THEN NoInterval
            ELSE IF <<beg, end>> = n /\ beg > 0
                 THEN select_around_interval(string, beg - 1, end, fst, snd)
            ELSE IF <<beg, end>> = n /\ end < Len(string)
                 THEN select_around_interval(string, beg, end + 1, fst, snd)
            ELSE IF beg > n[1] + 1 \/ end < n[2] - 1
                 THEN <<n[1] + 1, n[2] - 1>>
                 ELSE n

\* str.find(char, start) and str.rfind(char, 0, stop): a position or -1.
find(string, char, start) ==
    LET hits == {i \in start..(Len(string) - 1) : string[i + 1] = char}
    IN IF hits = {} THEN -1 ELSE CHOOSE i \in hits : \A j \in hits : i <= j
rfind(string, char, stop) ==
    LET hits == {i \in 0..(Min(stop, Len(string)) - 1) : string[i + 1] = char}
    IN IF hits = {} THEN -1 ELSE CHOOSE i \in hits : \A j \in hits : i >= j

\* What SelectAroundChar finds around one interval: for a bracket its
\* surrounding pair, for another character its nearest occurrences.
around_interval(string, iv, char) ==
    IF char \in {"(", ")"}
    THEN select_around_interval(string, iv[1], iv[2], "(", ")")
    ELSE LET nend == find(string, char, iv[2])
             nbeg == rfind(string, char, iv[1])
         IN IF nend # -1 /\ nbeg # -1 THEN <<nbeg, nend + 1>> ELSE NoInterval

\* The loops of SelectAroundChar with an interval that has no match left
\* out of the result.
RECURSIVE around_loop_skipping(_, _, _, _, _)
around_loop_skipping(string, sel, char, i, result) ==
    IF i > Len(sel) THEN [none |-> FALSE, result |-> result, exc |-> "none"]
    ELSE LET match == around_interval(string, sel[i], char)
         IN IF match = NoInterval
            THEN around_loop_skipping(string, sel, char, i + 1, result)
            ELSE around_loop_skipping(string, sel, char, i + 1, add(result, match))

\* The loops of SelectAroundChar over the intervals of the selection.
RECURSIVE around_loop(_, _, _, _, _)
around_loop(string, sel, char, i, result) ==
    IF i > Len(sel) THEN [none |-> FALSE, result |-> result, exc |-> "none"]
    ELSE LET match == around_interval(string, sel[i], char)
         IN IF match = NoInterval
            THEN [none |-> TRUE, result |-> <<>>, exc |-> "none"]
            ELSE IF match = AssertionFailed
            THEN [none |-> TRUE, result |-> <<>>, exc |-> "AssertionError"]
            ELSE around_loop(string, sel, char, i + 1, add(result, match))

\* SelectAroundChar(document, char) on the document's selection.
SelectAroundChar(d, char) == around_loop(d.text, d.selection, char, 1, <<>>)

\* A document with some text of brackets and letters and a selection.
InitAround ==
    /\ text \in AroundTexts
    /\ selection \in SelectionsOn(Len(text))
    /\ selectmode = "SELECT"
    /\ saved = TRUE
    /\ notified = <<>>
    /\ raised = "none"
    /\ op = NoOperation
    /\ phase = "idle"
    /\ base = [text |-> text, selection |-> selection]
    /\ before = [text |-> text, selection |-> selection]
    /\ global_substitutions = <<>>
    /\ local_rules = <<>>
    /\ local_substitutions = <<>>
    /\ highlighting = <<>>
    /\ view = NoView
    /\ seen = <<>>
    /\ InitSession

\* SelectAroundChar is called with a character; its result is looked at.
CallSelectAroundChar ==
    /\ \E char \in AroundChars :
          LET r == SelectAroundChar(Doc, char)
          IN around' = [called |-> TRUE, char |-> char, none |-> r.none,
                        result |-> r.result, exc |-> r.exc]
    /\ UNCHANGED <<docvars, opvars, viewvars, lockvars, listvars, localpattern,
                   running, modevars>>

\* find_pattern(text, pattern, reverse) for the pattern 'a+': the runs of
\* the letter, in the order of the text or in the reverse order.
RECURSIVE find_pattern(_, _, _)
find_pattern(string, i, reverse) ==
    IF i >= Len(string) THEN <<>>
    ELSE IF string[i + 1] # "a" THEN find_pattern(string, i + 1, reverse)
    ELSE LET mend == CHOOSE e \in (i + 1)..Len(string) :
                        /\ \A k \in (i + 1)..e : string[k] = "a"
                        /\ e = Len(string) \/ string[e + 1] # "a"
             rest == find_pattern(string, mend, reverse)
         IN IF reverse THEN Append(rest, <<i, mend>>) ELSE <<<<i, mend>>>> \o rest

\* interval - other for an other that covers one end of the interval: what
\* is left of the interval, and when nothing is left either None or the
\* empty interval at its end.
interval_sub(interval, other, empty_is_none) ==
    IF other[1] <= interval[1] /\ other[2] < interval[2]
    THEN <<Max(other[2], interval[1]), interval[2]>>
    ELSE IF other[1] > interval[1] /\ other[2] >= interval[2]
    THEN <<interval[1], Min(other[1], interval[2])>>
    ELSE IF empty_is_none THEN NoInterval
    ELSE <<interval[2], interval[2]>>

\* The inner loop of SelectLocalPattern over the matches, from the k-th on:
\* the new interval it ends with, or None.
RECURSIVE new_interval_loop(_, _, _, _, _)
new_interval_loop(interval, match_intervals, k, new_interval, p) ==
    IF k > Len(match_intervals) THEN new_interval
    ELSE LET beg == interval[1]
             end == interval[2]
             mbeg == match_intervals[k][1]
             mend == match_intervals[k][2]
             found ==
                 IF p.mode = "EXTEND" THEN <<Min(beg, mbeg), Max(end, mend)>>
                 ELSE IF p.mode = "REDUCE"
                 THEN interval_sub(interval,
                                   IF p.reverse THEN <<mbeg, Max(end, mend)>>
                                   ELSE <<Min(beg, mbeg), mend>>,
                                   p.empty_is_none)
                 ELSE <<mbeg, mend>>
         IN IF p.only_within /\ ~(beg <= mbeg /\ mend <= end)
            THEN new_interval_loop(interval, match_intervals, k + 1, new_interval, p)
            ELSE IF p.allow_same_interval /\ interval = <<mbeg, mend>>
            THEN <<mbeg, mend>>
            ELSE IF (~p.reverse /\ mend > beg) \/ (p.reverse /\ mbeg < end)
            THEN IF found # NoInterval /\ found # interval
                 THEN found
                 ELSE new_interval_loop(interval, match_intervals, k + 1, found, p)
            ELSE new_interval_loop(interval, match_intervals, k + 1, new_interval, p)

\* SelectLocalPattern with what was added for the intervals before the one
\* without a suitable match kept, followed by the rest of the selection.
RECURSIVE SelectLocalPattern_keeping_added(_, _, _, _, _)
SelectLocalPattern_keeping_added(sel, match_intervals, i, result, p) ==
    IF i > Len(sel) THEN result
    ELSE LET new_interval == new_interval_loop(sel[i], match_intervals, 1, NoInterval, p)
         IN IF new_interval = NoInterval
            THEN SelectLocalPattern_keeping_added(sel, match_intervals, i + 1,
                                                  add(result, sel[i]), p)
            ELSE SelectLocalPattern_keeping_added(sel, match_intervals, i + 1,
                                                  add(result, new_interval), p)

\* SelectLocalPattern.__init__: the outer loop over the intervals of the
\* selection, from the i-th on, and the intervals the new Selection holds.
RECURSIVE SelectLocalPattern(_, _, _, _, _)
SelectLocalPattern(sel, match_intervals, i, result, p) ==
    IF i > Len(sel) THEN result
    ELSE LET new_interval == new_interval_loop(sel[i], match_intervals, 1, NoInterval, p)
         IN IF new_interval = NoInterval
            THEN sel
            ELSE SelectLocalPattern(sel, match_intervals, i + 1, add(result, new_interval), p)

\* SelectLocalPattern is called once on the document's selection with a
\* mode and its three flags; its result is looked at.
CallSelectLocalPattern ==
    /\ ~localpattern.called
    /\ \E mode \in {"SELECT", "EXTEND", "REDUCE"} :
       \E reverse, only_within, allow_same_interval, empty_is_none \in BOOLEAN :
          LET p == [called |-> TRUE, mode |-> mode, reverse |-> reverse,
                    only_within |-> only_within,
                    allow_same_interval |-> allow_same_interval,
                    empty_is_none |-> empty_is_none, result |-> <<>>]
          IN localpattern' =
                [p EXCEPT !.result = SelectLocalPattern(selection,
                                         find_pattern(text, 0, reverse), 1, <<>>, p)]
    /\ UNCHANGED <<docvars, opvars, viewvars, lockvars, listvars, around,
                   running, modevars>>

NextAround == CallSelectAroundChar

SpecAround == InitAround /\ [][NextAround]_vars

\* The same documents, with SelectLocalPattern called on them.
SpecLocal == InitAround /\ [][CallSelectLocalPattern]_vars

(***************************************************************************)
(* Undoable commands and compositions (fate/commandtools.py).              *)
(* fate/mode.py, fate/undotree.py and the input loop of the normal mode    *)
(* are not among the sources.  The undo tree is kept as the list of calls  *)
(* made on it; running.trace holds them together with the other calls, in  *)
(* the order they were made.                                               *)
(***************************************************************************)

\* How many commands the input loop runs.
MaxInputs == 3

\* A command: a function of the document (its result, if any, is the
\* command it returns), an Undoable instance, a Mode class or a class made
\* by Compose.
Command(kind, name, raises, result, subs) ==
    [kind |-> kind, name |-> name, raises |-> raises, result |-> result, subs |-> subs]

\* operation.py: class Operation(Undoable), an instance of it.
AnOperation == Command("undoable", "Operation", FALSE, <<>>, <<>>)
\* An Undoable whose class does not override do(): do raises.
AbstractUndoable == Command("undoable", "Undoable", TRUE, <<>>, <<>>)
\* A selector: a function of the document that returns nothing callable.
emptybefore == Command("function", "emptybefore", FALSE, <<>>, <<>>)
\* A command that builds an Operation and returns it to be called.
Cut == Command("function", "Cut", FALSE, <<AnOperation>>, <<>>)
\* insertoperations.py: class ChangeInPlace(InsertMode).
ChangeInPlace == Command("mode", "ChangeInPlace", FALSE, <<>>, <<>>)

\* Compose(*subcommands, name): the class Compound it returns.
Compose(subcommands, name) == Command("compound", name, FALSE, <<>>, subcommands)

ChangeBefore == Compose(<<emptybefore, ChangeInPlace>>, "ChangeBefore")
CutChange == Compose(<<Cut, ChangeBefore>>, "CutChange")
\* Compositions with a command after a mode, and with a command that raises.
ChangeThenCut == Compose(<<ChangeInPlace, Cut, emptybefore>>, "ChangeThenCut")
CutThenRaise == Compose(<<Cut, AbstractUndoable, emptybefore>>, "CutThenRaise")

\* What the user can make the input loop run.
Commands == {emptybefore, Cut, AnOperation, AbstractUndoable, ChangeInPlace,
             ChangeBefore, CutChange, ChangeThenCut, CutThenRaise}

\* doc.mode when no mode is active.
NoMode == [name |-> "normal", callback |-> 0, started |-> 0]

Event(ev, name, id, at, via) ==
    [ev |-> ev, name |-> name, id |-> id, at |-> at, via |-> via]

Log(st, e) == [st EXCEPT !.trace = Append(@, e)]

\* Undoable.do(doc) of the instance c; the abstract method raises.  via is
\* "call" when __call__ made the call and "do" otherwise.
Undoable_do(st, c, via) ==
    IF c.raises
    THEN [Log(st, Event("raise", c.name, 0, 0, via)) EXCEPT !.exc = "NotImplementedError"]
    ELSE Log(st, Event("do", c.name, 0, 0, via))

\* __call__ that executes the command first and adds it afterwards.
Undoable_call_adding_last(st, c) ==
    LET done == Undoable_do(st, c, "call")
    IN IF done.exc # "none" THEN done ELSE Log(done, Event("add", c.name, 0, 0, ""))

\* Undoable.__call__(doc): doc.undotree.add(self), then self.do(doc).
Undoable_call(st, c) ==
    Undoable_do(Log(st, Event("add", c.name, 0, 0, "")), c, "call")

\* ChangeInPlace.__init__(doc): InsertMode.__init__ starts the mode, without
\* a callback, and update_operation executes the preview operation with
\* do(), which adds nothing to the undo tree.
mode_init(st, c) ==
    LET started == Len(st.trace) + 1
        st1 == [st EXCEPT !.mode = [name |-> c.name, callback |-> 0, started |-> started]]
    IN Undoable_do(Log(st1, Event("mode_start", c.name, 0, 0, "")), AnOperation, "do")

\* mode.start(doc, self.proceed) of the Compound id.
mode_start(st, id) ==
    Log([st EXCEPT !.mode.callback = id, !.mode.started = Len(st.trace) + 1],
        Event("mode_start", st.mode.name, id, 0, ""))

\* What command(doc) returns when it returns: the command a function
\* returns, or nothing callable.
result_of(c) == IF c.kind = "function" THEN c.result ELSE <<>>

RECURSIVE command_call(_, _, _)
RECURSIVE proceed_skipping_end(_, _)
RECURSIVE proceed(_, _)
RECURSIVE proceed_command(_, _, _)

\* Compound.proceed that leaves the sequence open.
proceed_skipping_end(st, id) ==
    IF st.compounds[id].todo = <<>>
    THEN st
    ELSE LET command == Head(st.compounds[id].todo)
             st1 == [st EXCEPT !.compounds[id].todo = Tail(@)]
         IN proceed_command(Log(st1, Event("popleft", command.name, id, 0, "")), id, command)

\* Compound.proceed(doc) of the Compound id: the outer loop.
proceed(st, id) ==
    IF st.compounds[id].todo = <<>>
    THEN Log(st, Event("end_sequence", st.compounds[id].name, id, 0, ""))
    ELSE LET command == Head(st.compounds[id].todo)
             st1 == [st EXCEPT !.compounds[id].todo = Tail(@)]
         IN proceed_command(Log(st1, Event("popleft", command.name, id, 0, "")), id, command)

\* The inner loop of proceed: a Mode class is started with proceed as its
\* callback and proceed returns; anything else is called, and so is what
\* it returns until that is not callable.
proceed_command(st, id, command) ==
    IF command.kind = "mode"
    THEN mode_start(mode_init(st, command), id)
    ELSE IF command_call(st, command, id).exc # "none"
    THEN command_call(st, command, id)
    ELSE IF result_of(command) = <<>>
    THEN proceed(command_call(st, command, id), id)
    ELSE proceed_command(command_call(st, command, id), id, result_of(command)[1])

\* Compound.__init__(doc); within is the Compound whose proceed makes the
\* call, 0 when the input loop makes it.
Compound_init(st, c, within) ==
    LET id == Len(st.compounds) + 1
        st1 == [st EXCEPT !.compounds =
                    Append(@, [name |-> c.name, subcommands |-> c.subs,
                               todo |-> c.subs, within |-> within])]
    IN proceed(Log(st1, Event("start_sequence", c.name, id, 0, "")), id)

\* command(doc).
command_call(st, c, within) ==
    CASE c.kind = "function" -> Log(st, Event("call", c.name, within, 0, ""))
      [] c.kind = "undoable" -> Undoable_call(st, c)
      [] c.kind = "mode"     -> mode_init(st, c)
      [] c.kind = "compound" -> Compound_init(st, c, within)

\* The input loop of the normal mode: the command is called, and so is
\* what it returns until that is not callable.
RECURSIVE execute(_, _)
execute(st, c) ==
    IF command_call(st, c, 0).exc # "none" \/ result_of(c) = <<>>
    THEN command_call(st, c, 0)
    ELSE execute(command_call(st, c, 0), result_of(c)[1])

\* InsertMode.stop(doc): the preview operation is undone and then called,
\* which adds it to the undo tree; Mode.stop leaves the mode and calls the
\* callback.
mode_stop(st) ==
    LET undone == Log(st, Event("undo", "Operation", 0, 0, ""))
        called == Undoable_call(undone, AnOperation)
        left == Log([called EXCEPT !.mode = NoMode],
                    Event("mode_stop", st.mode.name, st.mode.callback, st.mode.started, ""))
    IN IF st.mode.callback = 0 THEN left ELSE proceed(left, st.mode.callback)

\* The user runs a command in normal mode.
RunCommand ==
    /\ running.exc = "none"
    /\ running.mode = NoMode
    /\ running.inputs < MaxInputs
    /\ \E c \in Commands :
          running' = execute([running EXCEPT !.inputs = @ + 1], c)
    /\ UNCHANGED <<docvars, opvars, viewvars, lockvars, listvars, selectorvars, modevars>>

\* The user leaves the insert mode.
StopMode ==
    /\ running.exc = "none"
    /\ running.mode # NoMode
    /\ running' = mode_stop(running)
    /\ UNCHANGED <<docvars, opvars, viewvars, lockvars, listvars, selectorvars, modevars>>

\* Redo: the undo tree executes a command it holds with do().
Redo ==
    /\ running.exc = "none"
    /\ running.mode = NoMode
    /\ running.inputs < MaxInputs
    /\ \E k \in 1..Len(running.trace) :
          running.trace[k].ev = "add" /\ running.trace[k].name = "Operation"
    /\ running' = Undoable_do([running EXCEPT !.inputs = @ + 1], AnOperation, "do")
    /\ UNCHANGED <<docvars, opvars, viewvars, lockvars, listvars, selectorvars, modevars>>

NextCompose == RunCommand \/ StopMode \/ Redo

SpecCompose == Init /\ [][NextCompose]_vars

(***************************************************************************)
(* The insert modes (fate/insertoperations.py) and the prompt              *)
(* (fate/prompt.py).  While a mode is active, phase names it; what the      *)
(* user does after the mode has stopped is left out.                       *)
(***************************************************************************)

\* How many keys a mode is given.
MaxKeys == 3

\* InsertMode.update_operation(doc) of ChangeInPlace: the preview operation
\* is undone, compute_operation builds Operation(doc, newcontent[:],
\* deepcopy(oldselection)), and do() executes it.
update_operation(doc, ins) ==
    LET undone == IF ins.preview_operation = NoOperation THEN doc
                  ELSE call(doc, ins.preview_operation, TRUE)
        o == Operation(undone.text, undone.selection, ins.oldselection, ins.newcontent)
    IN IF undone.exc # "none"
       THEN [doc |-> undone, ins |-> ins]
       ELSE [doc |-> call(undone, o, FALSE), ins |-> [ins EXCEPT !.preview_operation = o]]

\* ChangeInPlace(doc): __init__ takes an empty new content for every
\* interval and a copy of the selection, and previews the operation.
StartInsert ==
    /\ phase = "idle"
    /\ LET ins == [stage |-> "active",
                   newcontent |-> [i \in 1..Len(selection) |-> <<>>],
                   oldselection |-> selection,
                   preview_operation |-> NoOperation,
                   start |-> Snapshot, before_stop |-> Snapshot,
                   added |-> 0, keys |-> 0]
           r == update_operation(Doc, ins)
       IN /\ Store(r.doc)
          /\ insertion' = [r.ins EXCEPT !.stage = IF r.doc.exc = "none" THEN "active"
                                                  ELSE "key_failed"]
          /\ phase' = IF r.doc.exc = "none" THEN "insert" ELSE "insert_failed"
    /\ UNCHANGED <<op, base, before, mode_before, viewvars>>
    /\ UNCHANGED <<lockvars, listvars, selectorvars, running, completion, prompt>>

\* InsertMode.insert_and_update(doc, userinput) of ChangeInPlace, without
\* autoindent and expandtab: insert changes newcontent[i] or widens
\* oldselection[i] for every i, then update_operation; "backspace" stands
\* for the key '\b'.
InsertKey ==
    /\ phase = "insert"
    /\ insertion.keys < MaxKeys
    /\ \E string \in {"x", "backspace", "del"} :
          LET ins == insertion
              inserted ==
                  [ins EXCEPT
                     !.keys = @ + 1,
                     !.newcontent =
                        [i \in 1..Len(ins.oldselection) |->
                            IF string = "backspace"
                            THEN IF ins.newcontent[i] # <<>>
                                 THEN SubSeq(ins.newcontent[i], 1, Len(ins.newcontent[i]) - 1)
                                 ELSE ins.newcontent[i]
                            ELSE IF string = "del" THEN ins.newcontent[i]
                            ELSE Append(ins.newcontent[i], string)],
                     !.oldselection =
                        [i \in 1..Len(ins.oldselection) |->
                            IF string = "backspace" /\ ins.newcontent[i] = <<>>
                            THEN <<Max(0, ins.oldselection[i][1] - 1), ins.oldselection[i][2]>>
                            ELSE IF string = "del"
                            THEN <<ins.oldselection[i][1],
                                   Min(Len(text), ins.oldselection[i][2] + 1)>>
                            ELSE ins.oldselection[i]]]
              r == update_operation(Doc, inserted)
          IN /\ Store(r.doc)
             /\ insertion' = [r.ins EXCEPT !.stage = IF r.doc.exc = "none" THEN "active"
                                                     ELSE "key_failed"]
             /\ phase' = IF r.doc.exc = "none" THEN "insert" ELSE "insert_failed"
    /\ UNCHANGED <<op, base, before, mode_before, viewvars>>
    /\ UNCHANGED <<lockvars, listvars, selectorvars, running, completion, prompt>>

\* InsertMode.stop(doc) on the cancel key: the preview operation is undone
\* and then called, which adds it to the undo tree and executes it.
StopInsert ==
    /\ phase = "insert"
    /\ LET undone == call(Doc, insertion.preview_operation, TRUE)
           redone == call(undone, insertion.preview_operation, FALSE)
           failed == undone.exc # "none" \/ redone.exc # "none"
       IN /\ Store(IF undone.exc # "none" THEN undone ELSE redone)
          /\ insertion' = [insertion EXCEPT
                              !.stage = IF failed THEN "stop_failed" ELSE "stopped",
                              !.before_stop = Snapshot,
                              !.added = IF undone.exc # "none" THEN @ ELSE @ + 1]
          /\ phase' = IF failed THEN "insert_failed" ELSE "insert_stopped"
    /\ UNCHANGED <<op, base, before, mode_before, viewvars>>
    /\ UNCHANGED <<lockvars, listvars, selectorvars, running, completion, prompt>>

\* How often a prompt is started.
MaxPrompts == 2

\* Prompt.start(doc): the input string is emptied and the mode started.  The
\* document's cancel key is the name of a key or a single character.
StartPrompt ==
    /\ phase \in {"idle", "prompt_stopped"}
    /\ prompt.starts < MaxPrompts
    /\ \E cancelkey \in {"Esc", "q"} :
          prompt' = [stage |-> "active", inputstring |-> <<>>, cancelkey |-> cancelkey,
                     inputs |-> <<>>, starts |-> prompt.starts + 1]
    /\ phase' = "prompt"
    /\ UNCHANGED <<docvars, op, base, before, mode_before, viewvars>>
    /\ UNCHANGED <<lockvars, listvars, selectorvars, running, insertion, completion>>

\* Prompt.processinput appending every string that does not stop the mode,
\* the names of keys included.
PromptInput_appending_names ==
    /\ phase = "prompt"
    /\ Len(prompt.inputs) < MaxKeys
    /\ \E userinput \in [isstr : {TRUE}, key : {"x", "q", "", "Esc", "\n", "Up"}]
                        \cup {[isstr |-> FALSE, key |-> ""]} :
          LET key == userinput.key
              stops == userinput.isstr /\ (key = prompt.cancelkey \/ key = "\n")
              appended == userinput.isstr /\ ~stops
          IN /\ prompt' = [prompt EXCEPT
                              !.stage = IF stops THEN "stopped" ELSE @,
                              !.inputstring = IF appended THEN Append(@, key) ELSE @,
                              !.inputs = Append(@, userinput)]
             /\ phase' = IF stops THEN "prompt_stopped" ELSE "prompt"
    /\ UNCHANGED <<docvars, op, base, before, mode_before, viewvars>>
    /\ UNCHANGED <<lockvars, listvars, selectorvars, running, insertion, completion>>

\* Prompt.processinput(doc, userinput) while the prompt is the document's
\* mode: the cancel key and newline stop the mode, another string of one
\* character (or none) is appended, and a longer string or an input that
\* is not a string is only logged.
PromptInput ==
    /\ phase = "prompt"
    /\ Len(prompt.inputs) < MaxKeys
    /\ \E userinput \in [isstr : {TRUE}, key : {"x", "q", "", "Esc", "\n", "Up"}]
                        \cup {[isstr |-> FALSE, key |-> ""]} :
          LET key == userinput.key
              stops == userinput.isstr /\ (key = prompt.cancelkey \/ key = "\n")
              appended == userinput.isstr /\ ~stops /\ key \in {"x", "q"}
          IN /\ prompt' = [prompt EXCEPT
                              !.stage = IF stops THEN "stopped" ELSE @,
                              !.inputstring = IF appended THEN Append(@, key) ELSE @,
                              !.inputs = Append(@, userinput)]
             /\ phase' = IF stops THEN "prompt_stopped" ELSE "prompt"
    /\ UNCHANGED <<docvars, op, base, before, mode_before, viewvars>>
    /\ UNCHANGED <<lockvars, listvars, selectorvars, running, insertion, completion>>

\* update_completions keeping the completions the completer returned when
\* they start before the selection.
update_completions_keeping_all(doc, c, complete_result) ==
    IF ~complete_result.some
    THEN [c EXCEPT !.completions = <<>>, !.completion_start_pos = -1,
                   !.selected_completion = 0, !.last = "update"]
    ELSE [c EXCEPT !.completions = <<c.newcontent[1]>> \o complete_result.completions,
                   !.completion_start_pos = complete_result.pos,
                   !.selected_completion = 0, !.last = "update"]

\* Completable.update_completions(doc) with what the document's completer
\* returned: None, or a start position and a list of completions.  It is
\* called with complete_enabled(doc) true.
update_completions(doc, c, complete_result) ==
    LET beg == doc.selection[1][1]
    IN IF ~complete_result.some \/ complete_result.pos < beg
       THEN [c EXCEPT !.completions = <<>>, !.completion_start_pos = -1,
                      !.selected_completion = 0, !.last = "update"]
       ELSE [c EXCEPT !.completions = <<c.newcontent[1]>> \o complete_result.completions,
                      !.completion_start_pos = complete_result.pos,
                      !.selected_completion = 0, !.last = "update"]

\* ExampleCompletable(doc): __init__ takes an empty new content for every
\* interval, sets no completions and previews the operation.  The document
\* has a completer or has none.  compute_operation builds the Operation on
\* the document's selection, which with the preview undone is the selection
\* the mode started on (oldselection).
StartCompletable ==
    /\ phase = "idle"
    /\ \E completer \in BOOLEAN :
          LET c == [stage |-> "active", completer |-> completer,
                    newcontent |-> [i \in 1..Len(selection) |-> <<>>],
                    oldselection |-> selection,
                    preview_operation |-> NoOperation,
                    completions |-> <<>>, selected_completion |-> 0,
                    completion_start_pos |-> -1, keys |-> 0,
                    last |-> "start", selected_before |-> 0]
              r == update_operation(Doc, c)
          IN /\ Store(r.doc)
             /\ completion' = [r.ins EXCEPT !.stage = IF r.doc.exc = "none" THEN "active"
                                                      ELSE "failed"]
             /\ phase' = IF r.doc.exc = "none" THEN "complete" ELSE "complete_failed"
    /\ UNCHANGED <<op, base, before, mode_before, viewvars>>
    /\ UNCHANGED <<lockvars, listvars, selectorvars, running, insertion, prompt>>

\* InsertMode.processinput(doc, userinput) of an ExampleCompletable for a
\* character, the tab key (next_completion_or_tab) and the back tab key
\* (previous_completion), without expandtab; the completer's answer is
\* used when update_completions asks for it.  An assertion of
\* insert_completion that fails is recorded as AssertionError.
CompletableKey ==
    /\ phase = "complete"
    /\ completion.keys < MaxKeys
    /\ \E key \in {"x", "\t", "Btab"} :
       \E complete_result \in
             {[some |-> FALSE, pos |-> -1, completions |-> <<>>]} \cup
             [some : {TRUE}, pos : (selection[1][1] - 1)..(selection[1][1] + 1),
              completions : {<<>>, <<<<"x", "y">>, <<"x", "z">>>>}] :
       \E c0 \in {[completion EXCEPT !.keys = @ + 1,
                                      !.selected_before = completion.selected_completion,
                                      !.last = "none"]} :
          LET complete_enabled(d) == Len(d.selection) = 1 /\ c0.completer
              count == Len(c0.completions)
              insert_completion(c) ==
                  LET beg == selection[1][1]
                      kept == SubSeq(c.newcontent[1], 1,
                                     Min(c.completion_start_pos - beg, Len(c.newcontent[1])))
                  IN IF c.completion_start_pos < beg
                     THEN [doc |-> [Doc EXCEPT !.exc = "AssertionError"], ins |-> c]
                     ELSE update_operation(Doc,
                             [c EXCEPT !.newcontent[1] =
                                          kept \o c.completions[c.selected_completion + 1]])
              updated(r) ==
                  IF r.doc.exc = "none" /\ complete_enabled(r.doc)
                  THEN [doc |-> r.doc, ins |-> update_completions(r.doc, r.ins, complete_result)]
                  ELSE r
              insert_and_update(string) ==
                  updated(update_operation(Doc,
                             [c0 EXCEPT !.newcontent =
                                           [i \in 1..Len(@) |-> Append(@[i], string)],
                                        !.last = "insert"]))
              selecting(name, step) ==
                  IF complete_enabled(Doc) /\ count > 0
                  THEN insert_completion([c0 EXCEPT !.selected_completion = (@ + step) % count,
                                                    !.last = name])
                  ELSE [doc |-> Doc, ins |-> c0]
              next_completion == selecting("next", 1)
              previous_completion == selecting("previous", -1)
          IN \E r \in {IF key = "Btab" THEN previous_completion
                        ELSE IF key = "\t" /\ complete_enabled(Doc) /\ count > 1
                        THEN next_completion
                        ELSE insert_and_update(key)} :
                /\ Store(r.doc)
                /\ completion' = [r.ins EXCEPT !.stage = IF r.doc.exc = "none" THEN "active"
                                                         ELSE "failed"]
                /\ phase' = IF r.doc.exc = "none" THEN "complete" ELSE "complete_failed"
    /\ UNCHANGED <<op, base, before, mode_before, viewvars>>
    /\ UNCHANGED <<lockvars, listvars, selectorvars, running, insertion, prompt>>

NextInput ==
    \/ Load \/ Return \/ Select
    \/ StartInsert \/ InsertKey \/ StopInsert
    \/ StartPrompt \/ PromptInput
    \/ StartCompletable \/ CompletableKey

SpecInput == Init /\ [][NextInput]_vars

(***************************************************************************)
(* Claims about Operation apply and undo.                                  *)
(***************************************************************************)

Touching(sel) == \E i \in 1..(Len(sel) - 1) : sel[i][2] = sel[i + 1][1]

\* C1: Undo law.  For every document state (T, S) and every Operation
\* built on it whose apply succeeds, apply followed by undo leaves the text
\* equal to T and the selection equal to S.
C1_UndoLaw ==
    phase \in {"undone", "undo_failed"} => text = base.text /\ selection = base.selection

\* C2: Identity round trip.  An Operation whose new content is the content of
\* the selection (given explicitly or by default), once applied, leaves the
\* text and the selection as they were.
C2_IdentityRoundTrip ==
    (phase = "applied" /\ op.new_content = op.old_content)
        => text = base.text /\ selection = base.selection

\* The change in length of the text up to (not including) old interval i when
\* the first i - 1 selected spans are replaced by the entries of nc.
RECURSIVE Shift(_, _, _)
Shift(old, nc, i) ==
    IF i <= 1 THEN 0
    ELSE Shift(old, nc, i - 1) + Len(nc[i - 1]) - (old[i - 1][2] - old[i - 1][1])

\* The number of intervals of old that end at or before position p.
EndedBefore(old, p) == Cardinality({j \in 1..Len(old) : old[j][2] <= p})

InSome(old, p) == \E j \in 1..Len(old) : old[j][1] <= p /\ p < old[j][2]

Hello == <<"h", "e", "l", "l", "o", "\n", "w", "o", "r", "l", "d", "\n">>
HelloDoc == [text |-> Hello, selection |-> <<<<0, 5>>>>, selectmode |-> "SELECT",
             saved |-> TRUE, notified |-> <<>>, exc |-> "none"]
HelloOp == Operation(Hello, <<<<0, 5>>>>, <<>>, <<<<"H", "I">>>>)

\* C3: Apply rebuilds the text from the partition of the old selection:
\* every character outside the selection is copied, in order, and the i-th
\* selected span is replaced by new_content[i]; the scenario of the
\* specification ("hello\nworld\n", [(0,5)], ["HI"]) gives "HI\nworld\n".
C3_RebuildText ==
    /\ phase = "applied" =>
         LET old == op.old_selection
             nc == op.new_content
             n == Len(old)
         IN /\ Len(text) = Len(base.text) + Shift(old, nc, n + 1)
            /\ \A i \in 1..n :
                 SubSeq(text, old[i][1] + Shift(old, nc, i) + 1,
                        old[i][1] + Shift(old, nc, i) + Len(nc[i])) = nc[i]
            /\ \A p \in 0..(Len(base.text) - 1) :
                 ~InSome(old, p) =>
                    text[p + Shift(old, nc, EndedBefore(old, p) + 1) + 1] = base.text[p + 1]
    /\ call(HelloDoc, HelloOp, FALSE).text
          = <<"H", "I", "\n", "w", "o", "r", "l", "d", "\n">>

\* An Operation on two selected spans with a kept gap between them has
\* been applied and changed the text.
C3_Witness ==
    /\ phase = "applied"
    /\ Len(op.old_selection) = 2
    /\ op.old_selection[1][2] < op.old_selection[2][1]
    /\ op.new_content[1] # <<>>
    /\ op.new_content[1] # op.new_content[2]
    /\ text # base.text

\* C4: new_selection starts at the first old begin, its i-th interval is as
\* long as new_content[i], the gaps between its intervals are the gaps of
\* old_selection, and after apply the document's content at new_selection
\* is new_content.
C4_NewSelectionLayout ==
    phase = "applied" =>
        LET old == op.old_selection
            nc == op.new_content
        IN /\ Len(selection) = Len(old)
           /\ selection[1][1] = old[1][1]
           /\ \A i \in 1..Len(old) : selection[i][2] - selection[i][1] = Len(nc[i])
           /\ \A i \in 2..Len(old) :
                selection[i][1] - selection[i - 1][2] = old[i][1] - old[i - 1][2]
           /\ content(selection, text) = nc

\* C5: A failing apply or undo leaves the document's text and selection as
\* they were before the call.
C5_AllOrNothing ==
    raised # "none" => text = before.text /\ selection = before.selection

\* C6: No listener of OnTextChanged sees the rebuilt text together with the
\* selection that has not been replaced yet: what it sees is the document
\* as it was before the call or as it is after it.
C6_AtomicReplace ==
    \A i \in 1..Len(notified) :
        \/ notified[i] = before
        \/ notified[i] = [text |-> text, selection |-> selection]

\* new_content[i mod len(new_content)] for every interval of sel.
Cyclic(nc, sel) == [i \in 1..Len(sel) |-> nc[((i - 1) % Len(nc)) + 1]]

\* C7: With fewer new_content entries than selected intervals, apply does
\* not fail: entry i mod len(new_content) replaces interval i.
C7_CyclicReuse ==
    (phase \in {"applied", "apply_failed"} /\ Len(op.new_content) < Len(op.old_selection))
        => /\ raised # "IndexError"
           /\ text = rebuild(base.text, partition(op.old_selection, Len(base.text)),
                             Cyclic(op.new_content, op.old_selection), 1, 1)

\* C8: new_selection has as many intervals as old_selection, also for empty
\* new content strings and touching old intervals.
C8_SameArity ==
    (phase # "idle" /\ ~new_selection_raises(op))
        => Len(new_selection(op)) = Len(op.old_selection)

(***************************************************************************)
(* Claims about TextView.                                                  *)
(***************************************************************************)

\* The view text of everything from offset on, when the walk over it ends.
RestOfView(offset) ==
    compute_text_from_orig_interval(ViewDoc, offset, Len(text) - offset)

\* Enough text remains for height wrapped lines: the original text from
\* offset on has that many, and so has what the concealment shows of it.
EnoughLines(width, height, offset) ==
    /\ count_wrapped_lines(Slice(text, offset, Len(text)), width) >= height
    /\ ~RestOfView(offset).diverged
    /\ count_wrapped_lines(RestOfView(offset).vtext, width) >= height

\* C9: for every document, concealment, width > 0, height > 0 and valid
\* offset with at least height wrapped lines of text from offset on,
\* for_screen returns a view whose text_as_lines() has exactly height lines.
C9_ExactHeight ==
    (/\ view.method = "for_screen"
     /\ view.width > 0 /\ view.height > 0
     /\ 0 <= view.offset /\ view.offset <= Len(text)
     /\ EnoughLines(view.width, view.height, view.offset))
    => (view.status = "ok" /\ Len(text_as_lines(view)) = view.height)

\* The substitutions of a sample that begin inside the sampled range.
Walked(r) ==
    {k \in 1..Len(r.substitutions) : r.substitutions[k][1][1] < r.obeg + r.o_sample_length}

\* Where the replacement of the k-th substitution starts in the view text:
\* every earlier span is taken out and its replacement put in.
RECURSIVE ReplacementStart(_, _)
ReplacementStart(r, k) ==
    IF k = 1 THEN r.substitutions[1][1][1] - r.obeg
    ELSE ReplacementStart(r, k - 1)
         + Len(r.substitutions[k - 1][2])
         + (r.substitutions[k][1][1] - r.substitutions[k - 1][1][1])
         - (r.substitutions[k - 1][1][2] - r.substitutions[k - 1][1][1])

\* The original positions of a sample that no walked span conceals.
Unconcealed(r) ==
    {p \in r.obeg..(Min(r.obeg + r.o_sample_length, Len(text)) - 1) :
        \A k \in Walked(r) :
            ~(r.substitutions[k][1][1] <= p /\ p < r.substitutions[k][1][2])}

\* The view positions of a sample that belong to no replacement.
Unreplaced(r) ==
    {q \in 0..(Len(r.vtext) - 1) :
        \A k \in Walked(r) :
            ~(ReplacementStart(r, k) <= q
              /\ q < ReplacementStart(r, k) + Len(r.substitutions[k][2]))}

\* C10: in the maps a walk returns, every position of a concealed span
\* [sbeg, send) maps to the view position where its replacement starts, every
\* view position of the replacement maps back to sbeg, and the positions
\* outside concealed spans map one to one (there and back); the maps of the
\* TextView are these maps.
C10_ConcealedSpanMapping ==
    view.sampled.o_sample_length > 0 =>
        LET r == view.sampled
            o2v(p) == Index(r.opos_to_vpos, p - r.obeg)
            v2o(q) == Index(r.vpos_to_opos, q)
        IN /\ \A k \in Walked(r) :
                LET sbeg == r.substitutions[k][1][1]
                    send == r.substitutions[k][1][2]
                    vlen == Len(r.substitutions[k][2])
                    v0 == ReplacementStart(r, k)
                IN /\ \A p \in sbeg..(send - 1) :
                        p - r.obeg < Len(r.opos_to_vpos) - 1 /\ o2v(p) = v0
                   /\ \A q \in v0..(v0 + vlen - 1) :
                        q < Len(r.vpos_to_opos) - 1 /\ v2o(q) = sbeg
           /\ \A p \in Unconcealed(r) :
                /\ p - r.obeg < Len(r.opos_to_vpos) - 1
                /\ o2v(p) \in Unreplaced(r)
                /\ v2o(o2v(p)) = p
           /\ \A q \in Unreplaced(r) :
                /\ v2o(q) \in Unconcealed(r)
                /\ o2v(v2o(q)) = q
           /\ view.status = "ok" =>
                /\ \A i \in 1..Len(view.origpos_to_viewpos) :
                      i <= Len(r.opos_to_vpos)
                          => view.origpos_to_viewpos[i] = r.opos_to_vpos[i]
                /\ \A i \in 1..Len(r.vpos_to_opos) :
                      view.viewpos_to_origpos[i] = r.vpos_to_opos[i]

\* A view was built over a span of two characters shown as two others, with
\* text before the span.
C10_Witness ==
    /\ view.status = "ok"
    /\ view.sampled.o_sample_length > 0
    /\ \E k \in Walked(view.sampled) :
          /\ view.sampled.substitutions[k][1] = <<1, 3>>
          /\ Len(view.sampled.substitutions[k][2]) = 2
    /\ 0 \in Unconcealed(view.sampled)
    /\ Len(view.text) = 3

\* C11: whenever the text and the maps of a view have been computed, the
\* selection step raises nothing (no index out of range, no invalid
\* interval, no failed postcondition) and every interval (vbeg, vend) of the
\* view's selection has 0 <= vbeg <= vend <= len(view text).
C11_SelectionInBounds ==
    view.step \in {"selection", "done"} =>
        /\ view.status = "ok"
        /\ \A k \in 1..Len(view.selection) :
              /\ 0 <= view.selection[k][1]
              /\ view.selection[k][1] <= view.selection[k][2]
              /\ view.selection[k][2] <= Len(view.text)

\* The last entry of a list.
Last(l) == l[Len(l)]

\* C12: after for_screen each map ends in exactly one sentinel:
\* viewpos_to_origpos has len(view text) + 1 entries, the last being the
\* original position one past the visible range (between offset and the end
\* of the text); origpos_to_viewpos has one entry for each original position
\* from offset up to there and a last entry equal to len(view text).
C12_OneSentinel ==
    (view.method = "for_screen" /\ view.status = "ok") =>
        /\ Len(view.viewpos_to_origpos) = Len(view.text) + 1
        /\ view.offset <= Last(view.viewpos_to_origpos)
        /\ Last(view.viewpos_to_origpos) <= Len(text)
        /\ Len(view.origpos_to_viewpos) = Last(view.viewpos_to_origpos) - view.offset + 1
        /\ Last(view.origpos_to_viewpos) = Len(view.text)

\* The length for_screen keeps of its last sample: up to the end of the
\* height-th wrapped line (required_length).
KeptLength(v) ==
    end_of_wrapped_line(v.sampled.vtext, v.width,
        move_n_wrapped_lines_down(v.sampled.vtext, v.width, 0, v.height - 1)) + 1

\* C13: in for_screen the length kept after snapping to height lines is more
\* than half of the sampled view text, so the assertion
\* required_length > len(vtext) // 2 does not fail.
C13_KeepsMoreThanHalf ==
    (view.method = "for_screen" /\ view.sampled.o_sample_length > 0) =>
        /\ KeptLength(view) > Len(view.sampled.vtext) \div 2
        /\ ~(view.step = "text" /\ view.status = "AssertionError")

\* C14: constructing a TextView always ends: no constructor is left in a
\* substitution walk that no longer advances.
C14_ConstructionEnds == view.status # "diverged"

\* The text t from position pos on with the spans of the substitutions from
\* the k-th on replaced by their replacements.
RECURSIVE Concealed(_, _, _, _)
Concealed(t, subs, pos, k) ==
    IF k > Len(subs) THEN Slice(t, pos, Len(t))
    ELSE Slice(t, pos, subs[k][1][1]) \o subs[k][2]
         \o Concealed(t, subs, subs[k][1][2], k + 1)

\* The total length of the spans, and of the replacements, of substitutions.
RECURSIVE SpanLength(_)
SpanLength(subs) ==
    IF Len(subs) = 0 THEN 0
    ELSE (subs[1][1][2] - subs[1][1][1]) + SpanLength(Tail(subs))

RECURSIVE ReplacementLength(_)
ReplacementLength(subs) ==
    IF Len(subs) = 0 THEN 0 ELSE Len(subs[1][2]) + ReplacementLength(Tail(subs))

\* The substitutions of the document, global or local.
AllSubstitutions == sorted_substitutions(local_rules, global_substitutions)

\* C15: the text of a view over the whole text is the original text with
\* every concealed span replaced by its replacement and the rest copied in
\* order; its length is len(original) - concealed + replacements, and every
\* view position of a replacement maps back to the start of its span.
C15_EntireTextConcealed ==
    (view.method = "for_entire_text" /\ view.status = "ok") =>
        /\ view.text = Concealed(text, AllSubstitutions, 0, 1)
        /\ Len(view.text) = Len(text) - SpanLength(AllSubstitutions)
                            + ReplacementLength(AllSubstitutions)
        /\ \A k \in Walked(view.sampled) :
              \A q \in ReplacementStart(view.sampled, k)..
                       (ReplacementStart(view.sampled, k)
                        + Len(view.sampled.substitutions[k][2]) - 1) :
                  Index(view.viewpos_to_origpos, q) = view.sampled.substitutions[k][1][1]

\* The arguments a constructor rejects.
InvalidArguments(v) ==
    \/ v.width <= 0
    \/ v.method = "for_screen"
       /\ (v.height <= 0 \/ v.offset < 0 \/ v.offset > Len(text))

\* C16: a constructor raises ValueError exactly when width <= 0 or, for
\* for_screen, height <= 0, offset < 0 or offset > len(doc.text); it does so
\* before anything is built: no text, map, selection, highlighting or sample
\* exists, and the document's local substitutions are as they were.
C16_RejectsInvalidArguments ==
    [][view'.method # "none" =>
          /\ InvalidArguments(view') <=> view'.status = "ValueError"
          /\ view'.status = "ValueError" =>
                /\ view'.step = "arguments"
                /\ view'.text = <<>>
                /\ view'.origpos_to_viewpos = <<>>
                /\ view'.viewpos_to_origpos = <<>>
                /\ view'.selection = <<>>
                /\ view'.highlighting = <<>>
                /\ view'.sampled = NoSample
                /\ local_substitutions' = local_substitutions]_vars

\* for_screen was called with an offset beyond the end of a text whose local
\* substitutions an earlier view had generated.
C16_Witness ==
    /\ view.method = "for_screen"
    /\ view.status = "ValueError"
    /\ view.offset > Len(text)
    /\ local_substitutions # <<>>

\* The original position one past the visible range of a view: the position
\* shown right after the view text when the sample holds one, and else the
\* end of the sample or of the text.
VisibleEnd(v) ==
    IF Len(v.text) < Len(v.sampled.vpos_to_opos) - 1
    THEN v.viewpos_to_origpos[Len(v.text) + 1]
    ELSE Min(v.offset + v.sampled.o_sample_length, Len(text))

\* The document's intervals a view shows: those that overlap the visible
\* range and the empty ones at either end of it.
Shown(v) ==
    SelectSeq(selection,
              LAMBDA iv : \/ iv[1] < VisibleEnd(v) /\ v.offset < iv[2]
                          \/ iv[1] = iv[2] /\ iv[1] \in {v.offset, VisibleEnd(v)})

\* Whether the forward map of a view has an entry for original position p,
\* and that entry.
Mapped(v, p) == 0 <= p - v.offset /\ p - v.offset < Len(v.origpos_to_viewpos)
Forward(v, p) == v.origpos_to_viewpos[p - v.offset + 1]

\* The intervals from the i-th on, clamped to the visible range and mapped
\* through the forward map, added to acc.
RECURSIVE Projected(_, _, _, _)
Projected(v, shown, i, acc) ==
    IF i > Len(shown) THEN acc
    ELSE Projected(v, shown, i + 1,
                   add(acc, <<Forward(v, Max(shown[i][1], v.offset)),
                              Forward(v, Min(shown[i][2], VisibleEnd(v)))>>))

\* C17: the selection of a view holds exactly the document's intervals that
\* overlap the visible original range or are empty at one of its ends (the
\* cursor at the end of the text when offset == len(text) among them), each
\* clamped to the range, both ends mapped through origpos_to_viewpos at
\* (original position - offset).
C17_SelectionProjection ==
    view.step \in {"selection", "done"} =>
        /\ view.status = "ok"
        /\ \A i \in 1..Len(Shown(view)) :
              /\ Mapped(view, Max(Shown(view)[i][1], view.offset))
              /\ Mapped(view, Min(Shown(view)[i][2], VisibleEnd(view)))
        /\ view.selection = Projected(view, Shown(view), 1, <<>>)

\* C18: the highlighting of a view has one entry for each position of the
\* view text; entry q is the document's label at original position
\* viewpos_to_origpos[q] when there is one, and the empty string otherwise.
C18_HighlightingProjection ==
    view.status = "ok" =>
        /\ Len(view.highlighting) = Len(view.text)
        /\ \A q \in 0..(Len(view.text) - 1) :
              LET opos == Index(view.viewpos_to_origpos, q)
              IN Index(view.highlighting, q) =
                    IF opos \in DOMAIN highlighting THEN highlighting[opos] ELSE ""

\* A view shows a labelled character behind a replacement that moved it, next
\* to characters without a label.
C18_Witness ==
    /\ view.status = "ok"
    /\ \E q \in 0..(Len(view.text) - 1) :
          /\ Index(view.highlighting, q) = "keyword"
          /\ Index(view.viewpos_to_origpos, q) # q
    /\ \E q \in 0..(Len(view.text) - 1) : Index(view.highlighting, q) = ""

(***************************************************************************)
(* Claims about the document's saved flag and notifications.               *)
(***************************************************************************)

\* C19: after every apply and every undo that succeeds the document is
\* unsaved and OnTextChanged has fired exactly once, with the document
\* holding its new text as argument; after a load that completes the
\* document is saved.
C19_DirtyAndNotified ==
    /\ phase \in {"applied", "undone"} =>
          /\ saved = FALSE
          /\ Len(notified) = 1
          /\ notified[1].text = text
    /\ phase = "loaded" => saved = TRUE

\* An Operation was applied and then undone, leaving a document with text
\* that is not saved.
C19_Witness ==
    /\ phase = "undone"
    /\ text # <<>>
    /\ saved = FALSE

(***************************************************************************)
(* Claims about TextView construction beside document mutation.            *)
(***************************************************************************)

\* The text of a view together with its two position maps.
TextPart(v) == <<v.text, v.origpos_to_viewpos, v.viewpos_to_origpos>>

\* Every step of the constructor so far read the same document state.
OneState == \A i \in 1..Len(seen) : seen[i] = seen[1]

\* for_screen run without interruption on the document read at step k.
Uninterrupted(k) ==
    for_screen(DocSeen(seen[k]), view.width, view.height, view.offset).view

\* C20: a TextView built by for_screen takes each part from the document as
\* it is when that part is computed: text and maps from the state read
\* first, the selection view from the selection read second (through the
\* maps of the first state), the highlighting from the highlighting read
\* last. When no Operation was applied in between, the three reads see one
\* document state and the view is the one for_screen builds of that state;
\* when an Operation is applied in between, nothing stops the constructor
\* and its view combines parts of different document states.
C20_PartsFollowReads ==
    /\ (view.method = "for_screen" /\ view.status # "building" /\ seen # <<>> /\ OneState)
          => view = Uninterrupted(1)
    /\ (view.step = "done" /\ Len(seen) = 3)
          => /\ TextPart(view) = TextPart(Uninterrupted(1))
             /\ view.selection =
                   compute_selection(view, seen[2].selection, view.offset).selection
             /\ view.highlighting = compute_highlighting(view, seen[3].highlighting)

\* An Operation was applied between the computation of the text and that of
\* the selection view, and the TextView returned is the view of neither
\* document state: its text is that of the first, its selection view that
\* of the second.
C20_Witness ==
    /\ view.step = "done"
    /\ Len(seen) = 3
    /\ seen[1].text # seen[2].text
    /\ seen[2] = seen[3]
    /\ view # Uninterrupted(1)
    /\ view # Uninterrupted(2)
    /\ view.text = Uninterrupted(1).text
    /\ view.selection # Uninterrupted(1).selection
    /\ view.text # Uninterrupted(2).text

(***************************************************************************)
(* Claims about Selection.partition and Selection.bound.                   *)
(***************************************************************************)

\* The last call walked a partition: it was an apply, an undo or a load
\* that got past new_selection.
Partitioned ==
    /\ phase \in {"applied", "apply_failed", "undone", "undo_failed", "loaded", "load_failed"}
    /\ ~new_selection_raises(op)

\* The selection that call partitioned, and the contents it took from.
PartitionedSelection ==
    IF phase \in {"undone", "undo_failed"} THEN new_selection(op) ELSE op.old_selection
ConsumedContent ==
    IF phase \in {"undone", "undo_failed"} THEN op.old_content ELSE op.new_content

\* The intervals of the in-selection spans of a partition, in order.
SelectedSpans(part) ==
    LET chosen == SelectSeq(part, LAMBDA x : x[1])
    IN [i \in 1..Len(chosen) |-> chosen[i][2]]

\* C21: the partition walked by an apply or an undo starts at 0, ends at the
\* length of the text, every span begins where the one before it ends, and
\* its in-selection spans are the intervals of the selection in order,
\* the empty ones included; so the walk takes one entry of the content list
\* for each interval, and every entry it takes exists.
C21_PartitionCoversText ==
    Partitioned =>
        LET sel == PartitionedSelection
            L == Len(before.text)
            part == partition(sel, L)
        IN /\ validate(sel, before.text)
           /\ part[1][2][1] = 0
           /\ part[Len(part)][2][2] = L
           /\ \A k \in 1..Len(part) : part[k][2][1] <= part[k][2][2]
           /\ \A k \in 1..(Len(part) - 1) : part[k][2][2] = part[k + 1][2][1]
           /\ SelectedSpans(part) = sel
           /\ Len(SelectedSpans(part)) <= Len(ConsumedContent)

\* An Operation on two intervals, one of them empty, was applied.
C21_Witness ==
    /\ phase = "applied"
    /\ Len(op.old_selection) = 2
    /\ \E i \in 1..2 : op.old_selection[i][1] = op.old_selection[i][2]
    /\ \E i \in 1..2 : op.old_selection[i][1] < op.old_selection[i][2]
    /\ op.old_selection[1][1] > 0

\* Bounding s to [0, L] a second time changes nothing, and the bounded
\* selection lies within [0, L].
BoundLaw(s, L) ==
    LET b == bound(s, 0, L)
    IN /\ bound(b, 0, L) = b
       /\ \A i \in 1..Len(b) : 0 <= b[i][1] /\ b[i][1] <= b[i][2] /\ b[i][2] <= L

\* C22: for the document's selection and its locked selection (which may
\* reach beyond the text after a load made it shorter) and every length L,
\* bound(0, L) is idempotent and stays within [0, L]; the selection a load or
\* a release leaves in the document is valid for the document's text, and
\* neither fails in assigning the bounded selection (a load that fails has
\* failed in the text setter, before its selection was put back).
C22_BoundKeepsValid ==
    /\ \A L \in 0..MaxLen :
          /\ BoundLaw(selection, L)
          /\ locked_selection # <<>> => BoundLaw(locked_selection, L)
    /\ phase \in {"loaded", "released"} => validate(selection, text)
    /\ phase # "release_failed"
    /\ phase = "load_failed" => ~validate(selection, text)

\* A locked selection that reached beyond the text was released: the
\* selection now ends at the end of the text.
C22_Witness ==
    /\ phase = "released"
    /\ released # <<>>
    /\ released[Len(released)][2] > Len(text)
    /\ selection = bound(released, 0, Len(text))
    /\ \E i \in 1..Len(selection) : selection[i][1] < selection[i][2]

(***************************************************************************)
(* Claims about what TextView construction leaves alone.                   *)
(***************************************************************************)

\* C23: every step in which a constructor runs (for_screen or
\* for_entire_text, whether it returns a TextView or raises) leaves the
\* document's text, selection and highlighting and the global and local
\* substitutions of its concealment as they were.
C23_NoSideEffect ==
    [][view'.method # "none" /\ view.method = "none"
          => UNCHANGED <<text, selection, highlighting,
                         global_substitutions, local_substitutions>>]_vars

(***************************************************************************)
(* Claims about the quit commands.                                         *)
(***************************************************************************)

\* C24: after force_quit, and after quit_all when every prompt was answered
\* 'y', quit() has been called exactly once on every document that was in
\* documentlist when the command started.
C24_QuitsEveryDocument ==
    (\/ quitting.name = "force_quit"
     \/ quitting.name = "quit_all" /\ \A d \in 1..MaxDocs : quitting.answers[d] = "y")
        => \A i \in 1..Len(quitting.started) : quit_calls[quitting.started[i]] = 1

(***************************************************************************)
(* Claims about selectors.                                                 *)
(***************************************************************************)

\* What SelectAroundChar finds around the i-th interval of the selection.
AroundOf(i) == around_interval(text, selection[i], around.char)

\* C25: a call of SelectAroundChar leaves the document's text and selection
\* as they are; when some interval of the selection has nothing around it
\* the call returns None, and otherwise its result is made of what was found
\* around every interval: each find lies in an interval of the result, and
\* every interval of the result begins and ends where a find does.
C25_AllIntervalsOrNone ==
    [][around'.called =>
          /\ UNCHANGED <<text, selection>>
          /\ IF \E i \in 1..Len(selection) : AroundOf(i)' = NoInterval
             THEN around'.none /\ around'.result = <<>>
             ELSE /\ ~around'.none
                  /\ \A i \in 1..Len(selection) :
                        \E k \in 1..Len(around'.result) :
                           /\ around'.result[k][1] <= AroundOf(i)'[1]
                           /\ AroundOf(i)'[2] <= around'.result[k][2]
                  /\ \A k \in 1..Len(around'.result) :
                        /\ \E i \in 1..Len(selection) : AroundOf(i)'[1] = around'.result[k][1]
                        /\ \E i \in 1..Len(selection) : AroundOf(i)'[2] = around'.result[k][2]]_vars

\* SelectAroundChar returned None for a selection of two intervals of which
\* the first has the character on both sides and the second has not.
C25_Witness ==
    /\ around.called
    /\ around.none
    /\ Len(selection) = 2
    /\ AroundOf(1) # NoInterval
    /\ AroundOf(2) = NoInterval

(***************************************************************************)
(* Claims about the selection mode.                                        *)
(***************************************************************************)

BuiltByCommand == Len(op.new_content) = Len(op.old_selection)

\* C27: After any sequence of selectors, mode changes, operations and undos
\* nothing has raised and the selection is valid for the text: non-empty,
\* sorted, non-overlapping and inside [0, len(text)].
C27_NoFailureAndValid ==
    BuiltByCommand => raised = "none" /\ validate(selection, text)

(***************************************************************************)
(* Claims about Undoable and Compose.                                      *)
(***************************************************************************)

Executed(e) == e.ev \in {"do", "raise"}

Positions(ev) == {k \in 1..Len(running.trace) : running.trace[k].ev = ev}

\* C28: Every call of an Undoable adds it to the undo tree once, right
\* before it is executed, also when the execution raises; an execution
\* through do() adds nothing, so the undo tree holds one entry for every
\* call however often the command is executed again.
C28_AddedOnceBeforeExecuting ==
    LET tr == running.trace
    IN /\ \A k \in 1..Len(tr) :
            /\ tr[k].ev = "add" =>
                  /\ k < Len(tr)
                  /\ Executed(tr[k + 1])
                  /\ tr[k + 1].via = "call"
                  /\ tr[k + 1].name = tr[k].name
            /\ (Executed(tr[k]) /\ tr[k].via = "call") =>
                  /\ k > 1
                  /\ tr[k - 1].ev = "add"
                  /\ tr[k - 1].name = tr[k].name
            /\ (Executed(tr[k]) /\ tr[k].via = "do") =>
                  (k = 1 \/ tr[k - 1].ev # "add")
       /\ Cardinality(Positions("add")) =
             Cardinality({k \in 1..Len(tr) : Executed(tr[k]) /\ tr[k].via = "call"})

\* An Operation was called and executed again by a redo, and then an
\* Undoable was called whose do() raised: the undo tree holds both, once.
C28_Witness ==
    LET tr == running.trace
    IN /\ running.exc = "NotImplementedError"
       /\ Len(tr) = 5
       /\ tr[1].ev = "add" /\ tr[1].name = "Operation"
       /\ tr[2].ev = "do" /\ tr[2].via = "call"
       /\ tr[3].ev = "do" /\ tr[3].via = "do"
       /\ tr[4].ev = "add" /\ tr[4].name = "Undoable"
       /\ tr[5].ev = "raise" /\ tr[5].via = "call"
       /\ Cardinality(Positions("add")) = 2

Names(cs) == [i \in 1..Len(cs) |-> cs[i].name]

\* The subcommands the Compound id has taken from its deque, in order.
Popped(id) ==
    Names(SelectSeq(running.trace, LAMBDA e : e.ev = "popleft" /\ e.id = id))

\* The mode the Compound id started is still active.
Waiting(id) == running.mode # NoMode /\ running.mode.callback = id

RECURSIVE InsideOf(_, _)
InsideOf(y, x) ==
    IF y = x THEN TRUE
    ELSE IF y = 0 THEN FALSE
    ELSE InsideOf(running.compounds[y].within, x)

\* C30: While a mode started by a composition, or by a composition nested
\* in it, has not stopped, the composition takes no further subcommand and
\* does not call end_sequence.
C30_WaitsForMode ==
    LET tr == running.trace
    IN \A k \in Positions("popleft") \cup Positions("end_sequence") :
          \A j \in 1..(k - 1) :
             (tr[j].ev = "mode_start" /\ tr[j].id # 0 /\ InsideOf(tr[j].id, tr[k].id))
                => \E m \in (j + 1)..(k - 1) : tr[m].ev = "mode_stop" /\ tr[m].at = j

(***************************************************************************)
(* Claims about the insert modes.                                          *)
(***************************************************************************)

\* C31: An insert-mode session adds one operation to the undo tree, at
\* stop: no preview is added while the mode is active, and stop adds the
\* last preview once and leaves text and selection as they were just
\* before stop.
C31_OneOperationAtStop ==
    /\ insertion.stage \in {"active", "key_failed"} => insertion.added = 0
    /\ insertion.stage \in {"stopped", "stop_failed"} =>
          /\ insertion.added = 1
          /\ raised = "none"
          /\ Snapshot = insertion.before_stop

\* The text at mode start with the preview operation applied.
Previewed ==
    rebuild(insertion.start.text,
            partition(insertion.preview_operation.old_selection, Len(insertion.start.text)),
            insertion.preview_operation.new_content, 1, 1)

\* C32: After every key processed by ChangeInPlace the text of the
\* document is the text at mode start with the current preview operation
\* applied, and nothing else.
C32_PreviewsDoNotAccumulate ==
    insertion.stage \in {"active", "key_failed"} => text = Previewed

\* C33: After any sequence of keys given to ChangeInPlace, oldselection is
\* a valid selection for the text at mode start: sorted, non-overlapping
\* and inside [0, len(text at mode start)].
C33_OldSelectionValid ==
    insertion.stage # "none" => validate(insertion.oldselection, insertion.start.text)

(***************************************************************************)
(* Claims about the list of documents.                                     *)
(***************************************************************************)

\* C34: activedocument is None or a document of documentlist, and a
\* document on which quit() has returned is not in documentlist any more,
\* the last remaining document included.
C34_ActiveListedQuitRemoved ==
    /\ activedocument # 0 => Listed(activedocument)
    /\ \A d \in 1..MaxDocs : quit_calls[d] > 0 => ~Listed(d)

(***************************************************************************)
(* Claims about the locked selection.                                      *)
(***************************************************************************)

\* C35: The locked selection is None or a non-empty selection: only a
\* release takes it from a selection back to None, an unlock that would
\* remove everything leaves it as it is, and a release always resets it to
\* None and replaces the document's selection by the locked selection
\* bounded to [0, len(text)] when that is not empty, and by nothing else.
C35_LockedNoneOrNonEmpty ==
    [][/\ (locked_selection # <<>> /\ locked_selection' = <<>>) => phase' = "released"
       /\ (phase' = "unlocked" /\ locked_selection # <<>>) =>
             locked_selection' = IF subtract(locked_selection, selection) = <<>>
                                 THEN locked_selection
                                 ELSE subtract(locked_selection, selection)
       /\ (phase = "idle" /\ phase' = "released") =>
             /\ locked_selection' = <<>>
             /\ selection' = IF locked_selection # <<>>
                                  /\ bound(locked_selection, 0, Len(text)) # <<>>
                              THEN bound(locked_selection, 0, Len(text))
                              ELSE selection]_vars

\* An unlock of everything that was locked has left the locked selection
\* as it was.
C35_Witness ==
    /\ phase = "unlocked"
    /\ locked_selection # <<>>
    /\ Len(locked_selection) = 2
    /\ subtract(locked_selection, selection) = <<>>

(***************************************************************************)
(* Claims about the search for a surrounding pair of brackets.             *)
(***************************************************************************)

\* The number of positions lo..hi (from 1) of the string that hold char.
CountOf(string, lo, hi, char) == Cardinality({i \in lo..hi : string[i] = char})

\* Positions b (from 0) and e - 1 hold a bracket and the bracket that closes
\* it: between them no bracket is closed before it is opened and none is
\* left open.
BalancedPair(string, b, e) ==
    /\ e - b >= 2
    /\ string[b + 1] = "("
    /\ string[e] = ")"
    /\ \A k \in (b + 2)..(e - 1) :
          CountOf(string, b + 2, k, ")") <= CountOf(string, b + 2, k, "(")
    /\ CountOf(string, b + 2, e - 1, "(") = CountOf(string, b + 2, e - 1, ")")

\* The balanced pairs with pos on or between their brackets, and the
\* smallest of them (None when there is none).
PairsAround(string, pos) ==
    {p \in (0..Len(string)) \X (0..Len(string)) :
        p[1] <= pos /\ pos < p[2] /\ BalancedPair(string, p[1], p[2])}
SmallestPairAround(string, pos) ==
    IF PairsAround(string, pos) = {} THEN NoInterval
    ELSE CHOOSE p \in PairsAround(string, pos) :
            \A q \in PairsAround(string, pos) : p[2] - p[1] <= q[2] - q[1]

\* C36: at every position of the text that SelectAroundChar searched for a
\* pair of brackets, find_matching_pair returns the smallest balanced pair
\* whose brackets are at or around the position, from its opening bracket
\* to just after its closing one, and None when there is no such pair.
C36_SmallestSurroundingPair ==
    (around.called /\ around.char \in {"(", ")"}) =>
        \A pos \in 0..(Len(text) - 1) :
            find_matching_pair(text, pos, "(", ")") = SmallestPairAround(text, pos)

\* C38: for the text that SelectAroundChar searched for a pair of brackets
\* and every interval with 0 <= beg <= end <= len(text),
\* select_around_interval returns without a failed assertion, its own or
\* that of find_matching_pair, and returns None or an interval inside the
\* text; so the call of SelectAroundChar raised nothing.
C38_AroundIntervalSafe ==
    (around.called /\ around.char \in {"(", ")"}) =>
        /\ around.exc = "none"
        /\ \A beg \in 0..Len(text) : \A end \in beg..Len(text) :
              LET r == select_around_interval(text, beg, end, "(", ")")
              IN /\ r # AssertionFailed
                 /\ \/ r = NoInterval
                    \/ 0 <= r[1] /\ r[1] <= r[2] /\ r[2] <= Len(text)

\* SelectAroundChar was called with a bracket on a selection of two
\* intervals: around the one that ends the text a pair was found and
\* narrowed to what is between the brackets, and the other is the empty
\* interval at the start of the text, which is not searched.
C38_Witness ==
    /\ around.called
    /\ around.char = "("
    /\ around.none
    /\ around.exc = "none"
    /\ Len(selection) = 2
    /\ selection[1] = <<0, 0>>
    /\ selection[2][2] = Len(text)
    /\ select_around_interval(text, selection[2][1], selection[2][2], "(", ")") = <<1, 2>>

(***************************************************************************)
(* Claims about SelectLocalPattern.                                        *)
(***************************************************************************)

\* What the last call of SelectLocalPattern found for the i-th interval of
\* the selection: its new interval, or None.
NewIntervalOf(i) ==
    new_interval_loop(selection[i], find_pattern(text, 0, localpattern.reverse),
                      1, NoInterval, localpattern)

StopsPrompt(userinput) ==
    userinput.isstr /\ (userinput.key = prompt.cancelkey \/ userinput.key = "\n")

\* The strings of one character among the inputs, in the order they came,
\* without the inputs that stop the prompt.
RECURSIVE Typed(_)
Typed(inputs) ==
    IF inputs = <<>> THEN <<>>
    ELSE LET userinput == Head(inputs)
         IN (IF userinput.isstr /\ Len(userinput.key) = 1 /\ ~StopsPrompt(userinput)
             THEN <<userinput.key>> ELSE <<>>) \o Typed(Tail(inputs))

\* C39: from the start of a prompt on, its inputstring is the strings of one
\* character it was given since, in the order they came, the cancel key and
\* newline left out (so it is empty right after start, and a longer string
\* or an input that is not a string does not change it); the prompt is
\* active as long as it was given neither the cancel key nor newline, and
\* it has stopped when the last input was one of them.
C39_InputStringIsTyped ==
    prompt.stage \in {"active", "stopped"} =>
        /\ prompt.inputstring = Typed(prompt.inputs)
        /\ \A i \in 1..(Len(prompt.inputs) - 1) : ~StopsPrompt(prompt.inputs[i])
        /\ prompt.inputs # <<>> =>
              (prompt.stage = "stopped" <=> StopsPrompt(prompt.inputs[Len(prompt.inputs)]))
        /\ prompt.inputs = <<>> => prompt.stage = "active"

\* A prompt started for the second time was given two different characters
\* and then newline: it has stopped with the two characters, in their
\* order, as its inputstring.
C39_Witness ==
    /\ prompt.starts = 2
    /\ prompt.stage = "stopped"
    /\ Len(prompt.inputs) = 3
    /\ prompt.inputs[3].key = "\n"
    /\ prompt.inputstring = <<"q", "x">>

(***************************************************************************)
(* Claims about the completions of an insert mode.                         *)
(***************************************************************************)

\* A step in which the Completable mode processed a key.
KeyProcessed == completion'.keys = completion.keys + 1

\* C40: in a Completable insert mode selected_completion is an index of
\* completions whenever there are completions; a key that ran
\* update_completions leaves it 0; next_completion and previous_completion
\* move it one up and one down modulo the number of completions and leave
\* the completions as they are, so that previous_completion right after
\* next_completion brings back the index from before; and no assertion of
\* insert_completion fails.
C40_SelectedCompletionInRange ==
    [][/\ completion'.completions # <<>> =>
             /\ 0 <= completion'.selected_completion
             /\ completion'.selected_completion < Len(completion'.completions)
       /\ (KeyProcessed /\ completion'.last = "update") =>
             completion'.selected_completion = 0
       /\ (KeyProcessed /\ completion'.last = "next") =>
             /\ completion'.completions = completion.completions
             /\ completion'.selected_completion =
                   (completion.selected_completion + 1) % Len(completion.completions)
       /\ (KeyProcessed /\ completion'.last = "previous") =>
             /\ completion'.completions = completion.completions
             /\ completion'.selected_completion =
                   (completion.selected_completion - 1) % Len(completion.completions)
       /\ (KeyProcessed /\ completion'.last = "previous" /\ completion.last = "next") =>
             completion'.selected_completion = completion.selected_before
       /\ raised' # "AssertionError"]_vars

\* After a character gave three completions, next_completion selected the
\* second and inserted it, and previous_completion has selected the first
\* again and inserted it.
C40_Witness ==
    /\ phase = "complete"
    /\ completion.keys = 3
    /\ completion.last = "previous"
    /\ Len(completion.completions) = 3
    /\ completion.selected_before = 1
    /\ completion.selected_completion = 0
====
